---------------------------- MODULE Spec2Model ----------------------------
(***************************************************************************)
(* Agent RPC: the service registry contract (contract/contract.js) and the *)
(* JSON-RPC tool dispatcher (features/rpc-handler/index.js).               *)
(*                                                                         *)
(* Spec     the registry; every contract call runs to completion.          *)
(* SpecRpc  the dispatcher; a handleMessage call is suspended while its    *)
(*          tool handler is in progress.                                   *)
(* SpecBridge  the dispatcher publishing its tools to the contract.        *)
(* SpecAsync   the registry, its calls interleaved at their store accesses.*)
(* SpecCodec   stableStringify (unnamed/part_001).                         *)
(* SpecInvite  the protocol command /sc_invite (unnamed/part_001).         *)
(* SpecIssue   one /sc_invite command, in any state of the sidechannel.    *)
(* SpecVerify  the verification of received invites.                       *)
(* SpecPublish the dispatcher publishing into the contract's registry.     *)
(* SpecTools   the tool table: registerTool and listTools.                 *)
(* SpecConcurrent  the dispatcher with several handlers in progress.       *)
(* SpecSettling    the same, every handler invocation settling in the end. *)
(***************************************************************************)
EXTENDS Integers, Sequences, FiniteSets, TLC

VARIABLES
    store,      \* the contract's key-value store: key -> NULL or <<value>>
    ret,        \* what the last completed contract call returned / logged
    tools,      \* RpcHandler.tools: the Map, as its entries in insertion order
    enabledChannels,        \* RpcHandler.enabledChannels: NULL or <<array>>
    autoRegisterInContract, \* RpcHandler.autoRegisterInContract
    peerTx,     \* whether this.peer?.protocol?.instance?.tx is there
    publishing, \* the _registerInContract tasks in flight: their commands
    running,    \* the handleMessage calls awaiting their tool handler
    reply,      \* how the last completed RpcHandler call ended
    calls,      \* the contract calls suspended at a store access
    begun,      \* how many such calls were begun
    succeeded,  \* those of them that returned without an error
    doc,        \* a payload handed to stableStringify
    canon,      \* the canonical encoding last computed
    inviteTtlMs,    \* peer.sidechannel.inviteTtlMs
    now,        \* Date.now()
    console,    \* what the last protocol command printed
    signed,     \* the messages peer.wallet.sign was given
    verified,   \* the last invite verified, and the verdict
    welcomes,   \* the sidechannel's welcomes, by channel
    trace,      \* the calls the last protocol command made to the sidechannel
    listed      \* what the last listTools call handed to its caller

regVars == <<store, ret, calls, begun, succeeded>>
codecVars == <<doc, canon>>
scVars == <<inviteTtlMs, now, console, signed, verified, welcomes, trace>>
callerVars == <<listed>>
rpcVars == <<tools, enabledChannels, autoRegisterInContract, peerTx,
             publishing, running, reply>>
vars == <<store, ret, tools, enabledChannels, autoRegisterInContract, peerTx,
          publishing, running, reply, calls, begun, succeeded, doc, canon,
          inviteTtlMs, now,
          console, signed, verified, welcomes, trace, listed>>

-----------------------------------------------------------------------------
(* Bounds of the model                                                     *)

MaxTime == 1            \* the timer feature publishes times 1..MaxTime
MaxRunning == 1         \* handleMessage calls with a handler in progress
MaxPublishing == 1      \* registry publications in flight
MaxKeys == 2            \* properties of a payload
MaxNow == 1             \* Date.now()
MaxLines == 2           \* lines logged by /sc_invite commands
MaxCalls == 2           \* contract calls interleaved at their store accesses
MaxInProgress == 2      \* handlers in progress at the same time

-----------------------------------------------------------------------------
(* Values                                                                  *)

\* get(key) of an absent key is null; a stored value v is <<v>>.
NULL == <<>>
Some(v) == <<v>>

\* an optional field the caller left out of this.value
undefined == "<undefined>"

ServiceIds == {"s1", "s2"}
Addresses == {"addrA", "addrB"}
Methods == {"calc.add"}

\* this.value of a register_service transaction (schema registerService);
\* category is optional and may be the empty string (no min length)
RegisterValues ==
    [serviceId : ServiceIds, method : Methods, description : {"d"},
     priceInTNK : {"1"}, category : {undefined, "", "math"}]

\* this.value of an update_service transaction (schema updateService);
\* description, priceInTNK and category are optional: the transactions sent
\* update nothing, description and price, or the category
UpdateValues ==
    {[serviceId |-> id, description |-> f[1], priceInTNK |-> f[2],
      category |-> f[3]] :
        id \in ServiceIds,
        f \in {<<undefined, undefined, undefined>>,
               <<"e", "2", undefined>>,
               <<undefined, undefined, "math">>}}

\* this.value of a remove_service transaction (schema removeService)
RemoveValues == [serviceId : ServiceIds]

\* this.value of get_service and get_provider_services (schemas getService,
\* getProviderSvcs); listServices takes none
GetServiceValues == [serviceId : ServiceIds]
GetProviderSvcsValues == [providerAddress : Addresses]

\* storage schema
ServiceKey(serviceId) == <<"services", serviceId>>
IndexKey == <<"services_index">>
ProviderKey(providerAddress) == <<"providers", providerAddress>>
TimeKey == <<"currentTime">>

Keys ==
    {ServiceKey(s) : s \in ServiceIds} \cup {IndexKey}
        \cup {ProviderKey(a) : a \in Addresses} \cup {TimeKey}

\* this.get(key) on store s
get(s, key) == s[key]

\* this.put(key, value) on store s
put(s, key, value) == [s EXCEPT ![key] = Some(value)]

\* (await this.get(key)) || []
OrEmpty(v) == IF v = NULL THEN <<>> ELSE v[1]

\* the members of a list
Range(seq) == {seq[i] : i \in 1..Len(seq)}

\* returned errors
OK == "ok"
AlreadyExists == "Service already exists"
NotFound == "Service not found"
Unauthorized == "Not authorized"

\* a completed contract call: the operation, this.address, the serviceId (or
\* providerAddress, or key) of this.value, the returned error (or OK) and what
\* a read logged
Ret(op, address, arg, error, out) ==
    [op |-> op, address |-> address, arg |-> arg, error |-> error, out |-> out]

-----------------------------------------------------------------------------
(* The registry contract                                                   *)

\* category: category || 'general' ('' and undefined are both falsy)
CategoryOrGeneral(category) ==
    IF category = undefined \/ category = "" THEN "general" ELSE category

\* NewService with the description taken from the wrong field
NewService_WrongField(value, providerAddress, currentTime) ==
    [serviceId |-> value.serviceId,
     method |-> value.method,
     description |-> value.method,
     priceInTNK |-> value.priceInTNK,
     category |-> CategoryOrGeneral(value.category),
     providerAddress |-> providerAddress,
     timestamp |-> currentTime,
     active |-> TRUE]

\* the service entry registerService creates
NewService(value, providerAddress, currentTime) ==
    [serviceId |-> value.serviceId,
     method |-> value.method,
     description |-> value.description,
     priceInTNK |-> value.priceInTNK,
     category |-> CategoryOrGeneral(value.category),
     providerAddress |-> providerAddress,
     timestamp |-> currentTime,
     active |-> TRUE]

\* Exists that takes every id for new, so that registering writes over a
\* record
Exists_Never(existing) == FALSE

\* Exists that lets a removed id be registered again
Exists_ActiveOnly(existing) == existing # NULL /\ existing[1].active

\* existing !== null
Exists(existing) == existing # NULL

\* the store after registerService's three writes
RegisterWrites(s, value, address) ==
    LET serviceId == value.serviceId
        service == NewService(value, address, get(s, TimeKey))
        s1 == put(s, ServiceKey(serviceId), service)
        index == OrEmpty(get(s1, IndexKey))
        s2 == put(s1, IndexKey, Append(index, serviceId))
        providerServices == OrEmpty(get(s2, ProviderKey(address)))
    IN  put(s2, ProviderKey(address), Append(providerServices, serviceId))

registerService(address, value) ==
    LET existing == get(store, ServiceKey(value.serviceId))
    IN  IF Exists(existing)
        THEN /\ ret' = Ret("registerService", address, value.serviceId,
                           AlreadyExists, <<>>)
             /\ UNCHANGED store
        ELSE /\ store' = RegisterWrites(store, value, address)
             /\ ret' = Ret("registerService", address, value.serviceId, OK, <<>>)

\* NotOwner with the ownership check left out
NotOwner_Never(service, address) == FALSE

\* service.providerAddress !== this.address
NotOwner(service, address) == service.providerAddress # address

\* UpdateFields that also publishes the service again
UpdateFields_Reactivates(service, value) ==
    [service EXCEPT
        !.description = IF value.description # undefined
                        THEN value.description ELSE @,
        !.priceInTNK = IF value.priceInTNK # undefined
                       THEN value.priceInTNK ELSE @,
        !.category = IF value.category # undefined THEN value.category ELSE @,
        !.active = TRUE]

\* if(x !== undefined) service.x = x, for description, priceInTNK, category
UpdateFields(service, value) ==
    [service EXCEPT
        !.description = IF value.description # undefined
                        THEN value.description ELSE @,
        !.priceInTNK = IF value.priceInTNK # undefined
                       THEN value.priceInTNK ELSE @,
        !.category = IF value.category # undefined THEN value.category ELSE @]

\* what a call leaves: the store and the error returned (or OK)
After(s, error) == [store |-> s, error |-> error]

\* updateService run on the store s
updateServiceOn(s, address, value) ==
    LET serviceId == value.serviceId
        service == get(s, ServiceKey(serviceId))
    IN  IF service = NULL THEN After(s, NotFound)
        ELSE IF NotOwner(service[1], address) THEN After(s, Unauthorized)
        ELSE After(put(s, ServiceKey(serviceId),
                       UpdateFields(service[1], value)), OK)

updateService(address, value) ==
    LET after == updateServiceOn(store, address, value)
    IN  /\ store' = after.store
        /\ ret' = Ret("updateService", address, value.serviceId, after.error,
                      <<>>)

\* a filter that also drops every id after serviceId
FilterOut_Truncate(index, serviceId) ==
    IF \E i \in 1..Len(index) : index[i] = serviceId
    THEN SubSeq(index, 1,
                (CHOOSE i \in 1..Len(index) :
                    /\ index[i] = serviceId
                    /\ \A j \in 1..(i - 1) : index[j] # serviceId) - 1)
    ELSE index

\* index.filter(id => id !== serviceId)
FilterOut(index, serviceId) == SelectSeq(index, LAMBDA id : id # serviceId)

\* Deactivate that flips the flag
Deactivate_Toggle(service) == [service EXCEPT !.active = ~service.active]

\* Deactivate that leaves the flag alone
Deactivate_Noop(service) == service

\* service.active = false
Deactivate(service) == [service EXCEPT !.active = FALSE]

\* removeService that leaves the provider's list alone
RemoveWrites_IndexOnly(s, serviceId, service) ==
    LET s1 == put(s, ServiceKey(serviceId), Deactivate(service))
        index == OrEmpty(get(s1, IndexKey))
    IN  put(s1, IndexKey, FilterOut(index, serviceId))

\* the store after removeService's three writes
RemoveWrites(s, serviceId, service) ==
    LET providerAddress == service.providerAddress
        s1 == put(s, ServiceKey(serviceId), Deactivate(service))
        index == OrEmpty(get(s1, IndexKey))
        s2 == put(s1, IndexKey, FilterOut(index, serviceId))
        providerServices == OrEmpty(get(s2, ProviderKey(providerAddress)))
    IN  put(s2, ProviderKey(providerAddress),
            FilterOut(providerServices, serviceId))

\* removeService run on the store s
removeServiceOn(s, address, value) ==
    LET serviceId == value.serviceId
        service == get(s, ServiceKey(serviceId))
    IN  IF service = NULL THEN After(s, NotFound)
        ELSE IF NotOwner(service[1], address) THEN After(s, Unauthorized)
        ELSE After(RemoveWrites(s, serviceId, service[1]), OK)

removeService(address, value) ==
    LET after == removeServiceOn(store, address, value)
    IN  /\ store' = after.store
        /\ ret' = Ret("removeService", address, value.serviceId, after.error,
                      <<>>)

\* IsActive that skips the active flag
IsActive_Stored(service) == service # NULL

\* service && service.active
IsActive(service) == service # NULL /\ service[1].active

\* the loop of listServices / getProviderServices over a list of ids
ActiveServices(s, serviceIds) ==
    LET live == SelectSeq(serviceIds,
                          LAMBDA id : IsActive(get(s, ServiceKey(id))))
    IN  [i \in 1..Len(live) |-> get(s, ServiceKey(live[i]))[1]]

\* what listServices logs
listServicesOut(s) == ActiveServices(s, OrEmpty(get(s, IndexKey)))

\* what getServiceById logs: the service, or nothing ('not found or inactive')
getServiceByIdOut(s, serviceId) ==
    LET service == get(s, ServiceKey(serviceId))
    IN  IF IsActive(service) THEN <<service[1]>> ELSE <<>>

\* what getProviderServices logs
getProviderServicesOut(s, providerAddress) ==
    ActiveServices(s, OrEmpty(get(s, ProviderKey(providerAddress))))

listServices ==
    /\ ret' = Ret("listServices", "-", "-", OK, listServicesOut(store))
    /\ UNCHANGED store

getServiceById(value) ==
    /\ ret' = Ret("getServiceById", "-", value.serviceId, OK,
                  getServiceByIdOut(store, value.serviceId))
    /\ UNCHANGED store

getProviderServices(value) ==
    /\ ret' = Ret("getProviderServices", "-", value.providerAddress, OK,
                  getProviderServicesOut(store, value.providerAddress))
    /\ UNCHANGED store

\* the timer feature: only the key 'currentTime' is written
timer_feature(key, value) ==
    /\ IF key = "currentTime"
       THEN store' = put(store, TimeKey, value)
       ELSE UNCHANGED store
    /\ ret' = Ret("timer_feature", "-", key, OK, <<>>)

-----------------------------------------------------------------------------
(* The registry contract, one store access at a time: every this.get and   *)
(* this.put is awaited, and a call is suspended there while others run.    *)

\* a call in progress: its operation, caller and this.value, the number of
\* the store access it is suspended at, and its local variables
Call(op, address, value) ==
    [op |-> op, address |-> address, value |-> value, pc |-> 1,
     service |-> NULL, list |-> <<>>, out |-> <<>>]

\* this.value of a register_service transaction, and of the other calls
\* (fields the operation does not take are left out)
RegisterValue(serviceId, category) ==
    [serviceId |-> serviceId, method |-> "calc.add", description |-> "d",
     priceInTNK |-> "1", category |-> category, providerAddress |-> undefined]
Value(serviceId, description, category, providerAddress) ==
    [serviceId |-> serviceId, method |-> undefined,
     description |-> description, priceInTNK |-> undefined,
     category |-> category, providerAddress |-> providerAddress]

\* the contract calls made while others are in progress
ContractCalls ==
    {Call("registerService", "addrA", RegisterValue("s1", undefined)),
     Call("registerService", "addrB", RegisterValue("s1", "math")),
     Call("registerService", "addrB", RegisterValue("s2", undefined)),
     Call("updateService", "addrA", Value("s1", "e", undefined, undefined)),
     Call("updateService", "addrA", Value("s1", undefined, "math", undefined)),
     Call("removeService", "addrA", Value("s1", undefined, undefined, undefined)),
     Call("listServices", "-", Value(undefined, undefined, undefined, undefined)),
     Call("getServiceById", "-", Value("s1", undefined, undefined, undefined)),
     Call("getProviderServices", "-",
          Value(undefined, undefined, undefined, "addrA"))}

\* a store access leaves the call suspended at its next access, or is its
\* last: the call returns
Suspended(s, call) ==
    [store |-> s, done |-> FALSE, call |-> call, ret |-> Ret("-", "-", "-", OK, <<>>)]
Done(s, call, arg, error, out) ==
    [store |-> s, done |-> TRUE, call |-> call,
     ret |-> Ret(call.op, call.address, arg, error, out)]

\* registerService that writes services_index before the record
registerServiceAccess_IndexFirst(s, call) ==
    LET serviceId == call.value.serviceId
        address == call.address
    IN  CASE call.pc = 1 ->
                IF Exists(get(s, ServiceKey(serviceId)))
                THEN Done(s, call, serviceId, AlreadyExists, <<>>)
                ELSE Suspended(s, [call EXCEPT !.pc = 2])
          [] call.pc = 2 ->
                Suspended(s, [call EXCEPT !.pc = 3,
                    !.service = Some(NewService(call.value, address,
                                                get(s, TimeKey)))])
          [] call.pc = 3 ->
                Suspended(s, [call EXCEPT !.pc = 4,
                    !.list = Append(OrEmpty(get(s, IndexKey)), serviceId)])
          [] call.pc = 4 ->
                Suspended(put(s, IndexKey, call.list), [call EXCEPT !.pc = 5])
          [] call.pc = 5 ->
                Suspended(put(s, ServiceKey(serviceId), call.service[1]),
                          [call EXCEPT !.pc = 6])
          [] call.pc = 6 ->
                Suspended(s, [call EXCEPT !.pc = 7,
                    !.list = Append(OrEmpty(get(s, ProviderKey(address))),
                                    serviceId)])
          [] call.pc = 7 ->
                Done(put(s, ProviderKey(address), call.list), call,
                     serviceId, OK, <<>>)

\* registerService: get record, get currentTime, put record, get and put
\* services_index, get and put providers/<address>
registerServiceAccess(s, call) ==
    LET serviceId == call.value.serviceId
        address == call.address
    IN  CASE call.pc = 1 ->
                IF Exists(get(s, ServiceKey(serviceId)))
                THEN Done(s, call, serviceId, AlreadyExists, <<>>)
                ELSE Suspended(s, [call EXCEPT !.pc = 2])
          [] call.pc = 2 ->
                Suspended(s, [call EXCEPT !.pc = 3,
                    !.service = Some(NewService(call.value, address,
                                                get(s, TimeKey)))])
          [] call.pc = 3 ->
                Suspended(put(s, ServiceKey(serviceId), call.service[1]),
                          [call EXCEPT !.pc = 4])
          [] call.pc = 4 ->
                Suspended(s, [call EXCEPT !.pc = 5,
                    !.list = Append(OrEmpty(get(s, IndexKey)), serviceId)])
          [] call.pc = 5 ->
                Suspended(put(s, IndexKey, call.list), [call EXCEPT !.pc = 6])
          [] call.pc = 6 ->
                Suspended(s, [call EXCEPT !.pc = 7,
                    !.list = Append(OrEmpty(get(s, ProviderKey(address))),
                                    serviceId)])
          [] call.pc = 7 ->
                Done(put(s, ProviderKey(address), call.list), call,
                     serviceId, OK, <<>>)

\* updateService that merges its fields into the record stored at the time
\* of its put
updateServiceAccess_Merge(s, call) ==
    LET serviceId == call.value.serviceId
        service == get(s, ServiceKey(serviceId))
    IN  CASE call.pc = 1 ->
                IF service = NULL
                THEN Done(s, call, serviceId, NotFound, <<>>)
                ELSE IF NotOwner(service[1], call.address)
                THEN Done(s, call, serviceId, Unauthorized, <<>>)
                ELSE Suspended(s, [call EXCEPT !.pc = 2,
                        !.service = Some(UpdateFields(service[1], call.value))])
          [] call.pc = 2 ->
                Done(put(s, ServiceKey(serviceId),
                         UpdateFields(service[1], call.value)),
                     call, serviceId, OK, <<>>)

\* updateService: get record, put record
updateServiceAccess(s, call) ==
    LET serviceId == call.value.serviceId
        service == get(s, ServiceKey(serviceId))
    IN  CASE call.pc = 1 ->
                IF service = NULL
                THEN Done(s, call, serviceId, NotFound, <<>>)
                ELSE IF NotOwner(service[1], call.address)
                THEN Done(s, call, serviceId, Unauthorized, <<>>)
                ELSE Suspended(s, [call EXCEPT !.pc = 2,
                        !.service = Some(UpdateFields(service[1], call.value))])
          [] call.pc = 2 ->
                Done(put(s, ServiceKey(serviceId), call.service[1]), call,
                     serviceId, OK, <<>>)

\* removeService: get and put record, get and put services_index, get and
\* put providers/<providerAddress>
removeServiceAccess(s, call) ==
    LET serviceId == call.value.serviceId
        service == get(s, ServiceKey(serviceId))
    IN  CASE call.pc = 1 ->
                IF service = NULL
                THEN Done(s, call, serviceId, NotFound, <<>>)
                ELSE IF NotOwner(service[1], call.address)
                THEN Done(s, call, serviceId, Unauthorized, <<>>)
                ELSE Suspended(s, [call EXCEPT !.pc = 2,
                        !.service = Some(Deactivate(service[1]))])
          [] call.pc = 2 ->
                Suspended(put(s, ServiceKey(serviceId), call.service[1]),
                          [call EXCEPT !.pc = 3])
          [] call.pc = 3 ->
                Suspended(s, [call EXCEPT !.pc = 4,
                    !.list = FilterOut(OrEmpty(get(s, IndexKey)), serviceId)])
          [] call.pc = 4 ->
                Suspended(put(s, IndexKey, call.list), [call EXCEPT !.pc = 5])
          [] call.pc = 5 ->
                Suspended(s, [call EXCEPT !.pc = 6,
                    !.list = FilterOut(
                        OrEmpty(get(s, ProviderKey(
                                        call.service[1].providerAddress))),
                        serviceId)])
          [] call.pc = 6 ->
                Done(put(s, ProviderKey(call.service[1].providerAddress),
                         call.list),
                     call, serviceId, OK, <<>>)

\* the loop of listServices and getProviderServices: get the list of ids,
\* then get one record per id and keep it if it is active
activeServicesAccess(s, call, key, arg) ==
    IF call.pc = 1
    THEN IF OrEmpty(get(s, key)) = <<>>
         THEN Done(s, call, arg, OK, <<>>)
         ELSE Suspended(s, [call EXCEPT !.pc = 2,
                                        !.list = OrEmpty(get(s, key))])
    ELSE LET service == get(s, ServiceKey(Head(call.list)))
             out == IF IsActive(service) THEN Append(call.out, service[1])
                    ELSE call.out
         IN  IF Tail(call.list) = <<>>
             THEN Done(s, call, arg, OK, out)
             ELSE Suspended(s, [call EXCEPT !.list = Tail(call.list),
                                            !.out = out])

listServicesAccess(s, call) == activeServicesAccess(s, call, IndexKey, "-")

getProviderServicesAccess(s, call) ==
    activeServicesAccess(s, call, ProviderKey(call.value.providerAddress),
                         call.value.providerAddress)

\* getServiceById: one get
getServiceByIdAccess(s, call) ==
    Done(s, call, call.value.serviceId, OK,
         getServiceByIdOut(s, call.value.serviceId))

\* the call as it was begun
Begun(call) == Call(call.op, call.address, call.value)

\* a contract call begins: it runs up to its first store access
invoke(call) ==
    /\ begun < MaxCalls
    /\ begun' = begun + 1
    /\ calls' = Append(calls, call)
    /\ UNCHANGED <<store, ret, succeeded>>

\* the call i makes its next store access
access(i, after) ==
    /\ store' = after.store
    /\ UNCHANGED begun
    /\ IF after.done
       THEN /\ ret' = after.ret
            /\ calls' = [j \in 1..(Len(calls) - 1) |->
                            IF j < i THEN calls[j] ELSE calls[j + 1]]
            /\ succeeded' = IF after.ret.error = OK
                            THEN succeeded \cup {Begun(calls[i])}
                            ELSE succeeded
       ELSE /\ calls' = [calls EXCEPT ![i] = after.call]
            /\ UNCHANGED <<ret, succeeded>>

-----------------------------------------------------------------------------
(* JavaScript values, as the dispatcher sees them: <<type tag, value>>.    *)
(* Objects are records of values; an absent key is not in the record's     *)
(* domain.                                                                 *)

Undef == <<"undefined">>
JNull == <<"null">>
NaN == <<"NaN">>
Num(n) == <<"number", n>>
Str(s) == <<"string", s>>
Arr(seq) == <<"array", seq>>
Obj(rec) == <<"object", rec>>
\* new Error(message)
Err(message) == <<"error", [message |-> Str(message)]>>

TypeOf(x) == x[1]
ValueOf(x) == x[2]

\* the truthiness of a value, as || and ! use it
Truthy(x) ==
    CASE TypeOf(x) \in {"undefined", "null", "NaN"} -> FALSE
      [] TypeOf(x) = "number" -> ValueOf(x) # 0
      [] TypeOf(x) = "string" -> ValueOf(x) # ""
      [] OTHER -> TRUE

\* x.name
Field(x, name) ==
    IF TypeOf(x) \in {"object", "error"} /\ name \in DOMAIN ValueOf(x) THEN ValueOf(x)[name]
    ELSE Undef

\* the texts the transport delivers as string payloads
RequestText ==
    "{\"jsonrpc\":\"2.0\",\"method\":\"calc.add\",\"params\":[5,3],\"id\":1}"
Texts == {RequestText, "null", "5", "not json"}

Request(method, params, id) ==
    Obj([jsonrpc |-> Str("2.0"), method |-> method, params |-> params,
         id |-> id])

\* JSON.parse(text): the value decoded, or a SyntaxError
JSONparse(text) ==
    CASE text = RequestText ->
            [ok |-> TRUE,
             value |-> Request(Str("calc.add"), Arr(<<Num(5), Num(3)>>), Num(1))]
      [] text = "null" -> [ok |-> TRUE, value |-> JNull]
      [] text = "5" -> [ok |-> TRUE, value |-> Num(5)]
      [] OTHER -> [ok |-> FALSE, value |-> Undef]

\* Number(x), for the scalars that occur as parameters
ToNumber(x) ==
    CASE TypeOf(x) = "number" -> x
      [] TypeOf(x) = "null" -> Num(0)
      [] TypeOf(x) = "string" /\ ValueOf(x) = "" -> Num(0)
      [] TypeOf(x) = "string" /\ ValueOf(x) = "5" -> Num(5)
      [] OTHER -> NaN

-----------------------------------------------------------------------------
(* Tool handlers: what a call of the handler with params settles to        *)

Return(value) == [kind |-> "return", value |-> value]
Throw(error) == [kind |-> "throw", value |-> error]

\* calculator.add
calculator_add(params) ==
    IF TypeOf(params) # "array" \/ Len(ValueOf(params)) # 2
    THEN Throw(Err("add requires exactly 2 numeric parameters"))
    ELSE LET a == ToNumber(ValueOf(params)[1])
             b == ToNumber(ValueOf(params)[2])
         IN  IF a = NaN \/ b = NaN
             THEN Throw(Err("Parameters must be numbers"))
             ELSE Return(Num(ValueOf(a) + ValueOf(b)))

\* echo
echo(params) == Return(params)

\* the functions registered as tool handlers: two of the example tools, and
\* handlers that fail with an empty message, throw null, or return nothing
HandlerFunctions ==
    {"calculator.add", "echo", "failEmpty", "throwNull", "noReturn"}

\* a handler argument of registerTool that is not a function
NotAFunction == "notAFunction"

\* tool.handler(params), settled
CallHandler(handler, params) ==
    CASE handler = "calculator.add" -> calculator_add(params)
      [] handler = "echo" -> echo(params)
      [] handler = "failEmpty" -> Throw(Err(""))
      [] handler = "throwNull" -> Throw(JNull)
      [] handler = "noReturn" -> Return(Undef)

-----------------------------------------------------------------------------
(* The dispatcher (RpcHandler)                                             *)

Channels == {"rpc", "chat"}

\* the metadata argument of registerTool: {} or all four fields
NoMetadata ==
    [description |-> undefined, priceInTNK |-> undefined,
     category |-> undefined, serviceId |-> undefined]
AddMetadata ==
    [description |-> "Calculator - add", priceInTNK |-> "0.1",
     category |-> "math", serviceId |-> "calc_add"]

\* the registerTool calls made
ToolInputs ==
    {[methodName |-> "calc.add", handler |-> "calculator.add",
      metadata |-> AddMetadata],
     [methodName |-> "calc.add", handler |-> "failEmpty",
      metadata |-> NoMetadata],
     [methodName |-> "calc.add", handler |-> NotAFunction,
      metadata |-> NoMetadata],
     [methodName |-> "echo", handler |-> "echo", metadata |-> NoMetadata],
     [methodName |-> "echo", handler |-> "throwNull", metadata |-> NoMetadata],
     [methodName |-> "echo", handler |-> "noReturn", metadata |-> NoMetadata]}

\* x || d for an optional string
OrDefault(x, d) == IF x = undefined \/ x = "" THEN d ELSE x

\* this.tools.get(methodName): <<entry>>, or NULL
MapGet(map, methodName) ==
    LET hits == SelectSeq(map, LAMBDA e : e.method = methodName)
    IN  IF hits = <<>> THEN NULL ELSE <<hits[1]>>

\* MapSet that adds a second entry for a key the map already has
MapSet_Append(map, entry) == Append(map, entry)

\* this.tools.set(methodName, entry): an existing key keeps its place
MapSet(map, entry) ==
    IF MapGet(map, entry.method) = NULL
    THEN Append(map, entry)
    ELSE [i \in 1..Len(map) |->
            IF map[i].method = entry.method THEN entry ELSE map[i]]

\* the entry registerTool stores
ToolEntry(methodName, handler, metadata) ==
    [method |-> methodName,
     handler |-> handler,
     metadata |->
        [description |-> OrDefault(metadata.description, ""),
         priceInTNK |-> OrDefault(metadata.priceInTNK, "0"),
         category |-> OrDefault(metadata.category, "general"),
         serviceId |-> OrDefault(metadata.serviceId, methodName)]]

\* the register_service command _registerInContract sends
ContractCommand(methodName, metadata) ==
    [serviceId |-> OrDefault(metadata.serviceId, methodName),
     method |-> methodName,
     description |->
        OrDefault(metadata.description, "RPC method: " \o methodName),
     priceInTNK |-> OrDefault(metadata.priceInTNK, "0"),
     category |-> OrDefault(metadata.category, "general")]

\* a completed handleMessage call: the handler it invoked (or none), and the
\* value it returned, or that it raised
Returned(invoked, value) ==
    [op |-> "handleMessage", invoked |-> invoked, outcome |-> "returned",
     value |-> value]
Raised(invoked) ==
    [op |-> "handleMessage", invoked |-> invoked, outcome |-> "raised",
     value |-> Undef]
NoHandler == "none"

\* a completed registerTool call: it returned (nothing), or it threw
ToolReturned ==
    [op |-> "registerTool", invoked |-> NoHandler, outcome |-> "returned",
     value |-> Undef]
ToolRaised ==
    [op |-> "registerTool", invoked |-> NoHandler, outcome |-> "raised",
     value |-> Err("Tool handler must be a function")]

\* IsFunction that takes anything for a function
IsFunction_Any(handler) == TRUE

\* typeof handler === 'function'
IsFunction(handler) == handler \in HandlerFunctions

\* Publishes that starts no publication
Publishes_Never == FALSE

\* this.autoRegisterInContract && this.peer?.protocol?.instance?.tx
Publishes == autoRegisterInContract /\ peerTx

\* registerTool; the publication it starts is a task of its own, which it
\* does not await
registerTool(methodName, handler, metadata) ==
    IF ~IsFunction(handler)
    THEN /\ reply' = ToolRaised
         /\ UNCHANGED <<tools, publishing>>
    ELSE /\ tools' = MapSet(tools, ToolEntry(methodName, handler, metadata))
         /\ reply' = ToolReturned
         /\ IF Publishes
            THEN /\ Len(publishing) < MaxPublishing
                 /\ publishing' =
                        Append(publishing,
                               ContractCommand(methodName, metadata))
            ELSE UNCHANGED publishing

\* listTools(): one {method, ...tool.metadata} per entry, in the Map's order
listTools ==
    [i \in 1..Len(tools) |->
        [method |-> tools[i].method,
         description |-> tools[i].metadata.description,
         priceInTNK |-> tools[i].metadata.priceInTNK,
         category |-> tools[i].metadata.category,
         serviceId |-> tools[i].metadata.serviceId]]

\* a list that is the table's own entries: the caller sees the table
Snapshot_Live(list) == [live |-> TRUE, list |-> list]

\* const tools = []; tools.push({...}): a new array of new objects, which
\* the caller holds detached from the table
Snapshot(list) == [live |-> FALSE, list |-> list]

\* how protocol.instance.tx({command}) ends: it is fulfilled, or it rejects
\* with an Error (the service already exists, the peer is not writable,
\* anything else) or with a value that has no message
PublicationOutcomes ==
    {Return(Undef), Throw(Err("Service already exists")),
     Throw(Err("Peer is not writable")), Throw(Err("timeout")), Throw(JNull)}

\* what the two catch handlers of a publication print: _registerInContract
\* prints only in debug mode, and not the failures it expects; reading the
\* message of a thrown null fails there, and registerTool's handler prints
\* that failure
PublicationLog(settled, debug) ==
    IF settled.kind = "return" \/ ~debug THEN "nothing"
    ELSE IF TypeOf(settled.value) \in {"null", "undefined"}
    THEN "Failed to register in contract"
    ELSE IF ValueOf(settled.value).message
                \in {Str("Service already exists"), Str("Peer is not writable")}
    THEN "nothing"
    ELSE "Contract registration error"

\* the publication i settles (one that never does stays in publishing)
publicationSettles(i, settled, debug) ==
    /\ PublicationLog(settled, debug) \in
            {"nothing", "Failed to register in contract",
             "Contract registration error"}
    /\ publishing' = [j \in 1..(Len(publishing) - 1) |->
                        IF j < i THEN publishing[j] ELSE publishing[j + 1]]

\* what _parseJsonRpc does: it returns a request, returns null, or throws
ParsedRequest(request) == [kind |-> "request", request |-> request]
ParsedNull == [kind |-> "null", request |-> JNull]
ParseThrows == [kind |-> "throw", request |-> JNull]

\* json.params || []
ParamsOrEmpty(params) == IF Truthy(params) THEN params ELSE Arr(<<>>)

\* json.id === undefined
IsNotification(json) == Field(json, "id") = Undef

_parseJsonRpc(payload) ==
    LET decoded ==
            IF TypeOf(payload) = "string" THEN JSONparse(ValueOf(payload))
            ELSE IF TypeOf(payload) \in {"object", "array"}
            THEN [ok |-> TRUE, value |-> payload]
            ELSE [ok |-> FALSE, value |-> Undef]
        json == decoded.value
    IN  IF ~decoded.ok THEN ParsedNull
        ELSE IF TypeOf(json) \in {"null", "undefined"} THEN ParseThrows
        ELSE IF Field(json, "jsonrpc") # Str("2.0") THEN ParsedNull
        ELSE IF TypeOf(Field(json, "method")) # "string" THEN ParsedNull
        ELSE IF IsNotification(json) THEN ParsedNull
        ELSE ParsedRequest(
                [jsonrpc |-> Field(json, "jsonrpc"),
                 method |-> Field(json, "method"),
                 params |-> ParamsOrEmpty(Field(json, "params")),
                 id |-> Field(json, "id")])

\* ChannelRefused with the allow-list ignored
ChannelRefused_Never(channel) == FALSE

\* this.enabledChannels && !this.enabledChannels.includes(channel)
ChannelRefused(channel) ==
    /\ enabledChannels # NULL
    /\ \A i \in 1..Len(enabledChannels[1]) : enabledChannels[1][i] # channel

\* the response envelopes
MethodNotFoundCode == -32601
HandlerFailureCode == -32000

\* SuccessResponse that loses the request's id
SuccessResponse_NoId(result, id) ==
    Obj([jsonrpc |-> Str("2.0"), result |-> result, id |-> JNull])

SuccessResponse(result, id) ==
    Obj([jsonrpc |-> Str("2.0"), result |-> result, id |-> id])

ErrorResponse(code, message, id) ==
    Obj([jsonrpc |-> Str("2.0"),
         error |-> Obj([code |-> Num(code), message |-> message]),
         id |-> id])

\* MethodNotFound answering with the code of a handler failure
MethodNotFound_WrongCode(request) ==
    ErrorResponse(HandlerFailureCode,
                  Str("Method not found: " \o ValueOf(request.method)), request.id)

MethodNotFound(request) ==
    ErrorResponse(MethodNotFoundCode,
                  Str("Method not found: " \o ValueOf(request.method)), request.id)

\* MessageOf that hides the failure's message
MessageOf_Generic(err) == Str("Internal error")

\* err.message || 'Internal error'
MessageOf(err) ==
    IF Truthy(Field(err, "message")) THEN Field(err, "message")
    ELSE Str("Internal error")


\* where handleMessage stands before its await: it has completed, or it
\* awaits tool.handler(request.params || []), holding its request and its tool
NoCall == [request |-> JNull, handler |-> NoHandler]
Completed(completed) == [awaits |-> FALSE, completed |-> completed, call |-> NoCall]
Awaits(request, tool) ==
    [awaits |-> TRUE, completed |-> Raised(NoHandler),
     call |-> [request |-> request, handler |-> tool.handler]]

\* handleMessage up to its await
handleMessageToAwait(channel, payload) ==
    LET parsed == _parseJsonRpc(payload)
        request == parsed.request
        tool == MapGet(tools, ValueOf(request.method))
    IN  IF ChannelRefused(channel) THEN Completed(Returned(NoHandler, JNull))
        ELSE IF parsed.kind = "throw" THEN Completed(Raised(NoHandler))
        ELSE IF parsed.kind = "null" THEN Completed(Returned(NoHandler, JNull))
        ELSE IF tool = NULL
        THEN Completed(Returned(NoHandler, MethodNotFound(request)))
        ELSE Awaits(request, tool[1])

\* handleMessage, with at most `limit` handlers in progress
handleMessageWithin(channel, payload, limit) ==
    LET to == handleMessageToAwait(channel, payload)
    IN  IF to.awaits
        THEN /\ Len(running) < limit
             /\ running' = Append(running, to.call)
             /\ UNCHANGED reply
        ELSE /\ reply' = to.completed
             /\ UNCHANGED running

handleMessage(channel, payload) ==
    handleMessageWithin(channel, payload, MaxRunning)

\* the envelope handleMessage returns once the handler has settled; a thrown
\* null or undefined has no message to read, and the read raises
Settled(call, settled) ==
    IF settled.kind = "return"
    THEN Returned(call.handler,
                  SuccessResponse(settled.value, call.request.id))
    ELSE IF TypeOf(settled.value) \in {"null", "undefined"}
    THEN Raised(call.handler)
    ELSE Returned(call.handler,
                  ErrorResponse(HandlerFailureCode, MessageOf(settled.value),
                                call.request.id))

\* running without its i-th call
Without(seq, i) ==
    [j \in 1..(Len(seq) - 1) |-> IF j < i THEN seq[j] ELSE seq[j + 1]]

\* a settling call answered with what the oldest call in progress is owed
handlerSettles_Oldest(i) ==
    /\ reply' = Settled(running[1],
                        CallHandler(running[1].handler,
                                    ParamsOrEmpty(running[1].request.params)))
    /\ running' = Without(running, i)

\* the rest of handleMessage: the handler of call i settles
handlerSettles(i) ==
    /\ reply' = Settled(running[i],
                        CallHandler(running[i].handler,
                                    ParamsOrEmpty(running[i].request.params)))
    /\ running' = Without(running, i)

\* the payloads the transport delivers
Payloads ==
    {Request(Str("calc.add"), Arr(<<Num(5), Num(3)>>), Num(1)),
     Request(Str("calc.add"), Arr(<<Num(5), Str("x")>>), Num(2)),
     Request(Str("echo"), Arr(<<Num(5)>>), Str("a")),
     Request(Str("echo"), Num(0), JNull),
     Obj([jsonrpc |-> Str("2.0"), method |-> Str("echo"), id |-> Num(0)]),
     Obj([jsonrpc |-> Str("2.0"), method |-> Str("calc.add"),
          params |-> Arr(<<Num(5), Num(3)>>)]),
     Obj([jsonrpc |-> Str("1.0"), method |-> Str("calc.add"),
          params |-> Arr(<<Num(5), Num(3)>>), id |-> Num(1)]),
     Request(Num(7), Arr(<<>>), Num(1)),
     JNull, Num(5)}
        \cup {Str(text) : text \in Texts}

-----------------------------------------------------------------------------
(* The canonical text of a signed payload (stableStringify)                *)

\* an object with its keys in insertion order: a list of <<key, value>>
Object(entries) == <<"object", entries>>

\* Object.keys(value), value[key]
ObjectKeys(value) == [i \in 1..Len(ValueOf(value)) |-> ValueOf(value)[i][1]]
Prop(value, key) ==
    LET entries == ValueOf(value)
    IN  entries[CHOOSE i \in 1..Len(entries) : entries[i][1] = key][2]

\* the property names of the payloads, in the order of their code units
KeyOrder ==
    <<"a", "b", "c", "channel", "expiresAt", "inviteePubKey", "inviterAddress",
      "inviterPubKey", "issuedAt", "nonce", "version">>
PayloadKeys == {"a", "b", "c"}

\* keys.sort() that leaves the keys as they are
Sort_Insertion(keys) == keys

\* keys.sort(): the keys of an object are distinct
Sort(keys) == SelectSeq(KeyOrder, LAMBDA key : key \in Range(keys))

\* texts.join(sep)
RECURSIVE Join(_, _)
Join(texts, sep) ==
    IF texts = <<>> THEN ""
    ELSE IF Len(texts) = 1 THEN texts[1]
    ELSE texts[1] \o sep \o Join(Tail(texts), sep)

\* JSON.stringify of a number or a string (no character needs an escape)
JSONstringify(value) ==
    CASE TypeOf(value) = "number" -> ToString(ValueOf(value))
      [] TypeOf(value) = "NaN" -> "null"
      [] TypeOf(value) = "string" -> "\"" \o ValueOf(value) \o "\""

RECURSIVE stableStringify(_)
stableStringify(value) ==
    IF TypeOf(value) \in {"null", "undefined"} THEN "null"
    ELSE IF TypeOf(value) # "object" /\ TypeOf(value) # "array"
    THEN JSONstringify(value)
    ELSE IF TypeOf(value) = "array"
    THEN "[" \o Join([i \in 1..Len(ValueOf(value)) |->
                        stableStringify(ValueOf(value)[i])], ",") \o "]"
    ELSE LET keys == Sort(ObjectKeys(value))
         IN  "{" \o Join([i \in 1..Len(keys) |->
                            JSONstringify(Str(keys[i])) \o ":"
                                \o stableStringify(Prop(value, keys[i]))],
                         ",") \o "}"

\* the values of the properties of a payload
PayloadValues ==
    {Num(1), Num(2), Str("a"), JNull, Undef,
     Object(<<<<"b", Num(2)>>, <<"a", Num(1)>>>>),
     Object(<<<<"a", Num(1)>>, <<"b", Num(2)>>>>),
     Arr(<<Num(1), Object(<<<<"b", JNull>>, <<"a", Str("b")>>>>)>>)}

\* the payloads: objects of up to MaxKeys properties, in every insertion
\* order
ObjectsOf(n) ==
    {Object(entries) : entries \in
        {e \in [1..n -> PayloadKeys \X PayloadValues] :
            \A i, j \in 1..n : e[i][1] = e[j][1] => i = j}}
Documents == UNION {ObjectsOf(n) : n \in 0..MaxKeys}

\* the lists that take their i-th member from the i-th set
RECURSIVE Choices(_)
Choices(sets) ==
    IF sets = <<>> THEN {<<>>}
    ELSE {<<h>> \o t : h \in Head(sets), t \in Choices(Tail(sets))}

\* the orders of n properties
Orders(n) == {p \in [1..n -> 1..n] : \A i, j \in 1..n : p[i] = p[j] => i = j}

\* the values structurally equal to value: the same properties and array
\* members, the keys of every object in any insertion order
RECURSIVE Reorderings(_)
Reorderings(value) ==
    IF TypeOf(value) = "array"
    THEN {Arr(members) : members \in
            Choices([i \in 1..Len(ValueOf(value)) |->
                        Reorderings(ValueOf(value)[i])])}
    ELSE IF TypeOf(value) = "object"
    THEN LET entries == ValueOf(value)
             n == Len(entries)
         IN  UNION {{Object([i \in 1..n |-> <<entries[p[i]][1], values[i]>>]) :
                        values \in Choices([i \in 1..n |->
                                        Reorderings(entries[p[i]][2])])} :
                    p \in Orders(n)}
    ELSE {value}

\* message = stableStringify(payload)
StableStringify ==
    /\ canon' = stableStringify(doc)
    /\ UNCHANGED <<doc, regVars, rpcVars, scVars, callerVars>>

\* the payload is built again with its keys inserted in another order
Reorder ==
    /\ doc' \in Reorderings(doc)
    /\ UNCHANGED <<canon, regVars, rpcVars, scVars, callerVars>>

-----------------------------------------------------------------------------
(* The protocol command /sc_invite                                         *)

Bool(b) == <<"boolean", b>>

\* String(x), for strings and booleans
StringOf(x) ==
    CASE TypeOf(x) = "string" -> ValueOf(x)
      [] TypeOf(x) = "boolean" -> IF ValueOf(x) THEN "true" ELSE "false"

\* text.trim().toLowerCase(), for the keys that occur (none has blanks)
TrimLower(text) ==
    CASE text = "AB" -> "ab"
      [] text = "CD" -> "cd"
      [] OTHER -> text

\* Number.parseInt(text, 10): the leading integer of the text, or NaN
ParseInt(text) ==
    CASE text = "60" -> Num(60)
      [] text = "0" -> Num(0)
      [] text = "-5" -> Num(0 - 5)
      [] text = "1x" -> Num(1)
      [] OTHER -> NaN

\* Number.isFinite(x)
IsFinite(x) == TypeOf(x) = "number"

\* JSON.stringify(value): the keys in insertion order, undefined properties
\* left out
RECURSIVE JSONtext(_)
JSONtext(value) ==
    IF TypeOf(value) = "null" THEN "null"
    ELSE IF TypeOf(value) = "array"
    THEN "[" \o Join([i \in 1..Len(ValueOf(value)) |->
                        JSONtext(ValueOf(value)[i])], ",") \o "]"
    ELSE IF TypeOf(value) = "object"
    THEN LET entries == SelectSeq(ValueOf(value),
                                  LAMBDA entry : entry[2] # Undef)
         IN  "{" \o Join([i \in 1..Len(entries) |->
                            JSONstringify(Str(entries[i][1])) \o ":"
                                \o JSONtext(entries[i][2])],
                         ",") \o "}"
    ELSE JSONstringify(value)

\* b4a.toString(b4a.from(text), 'base64')
Base64(text) == <<"base64", text>>

\* normalizeInvitePayload that reads a missing or zero expiresAt as no
\* expiry: Number(payload?.expiresAt) || Infinity
normalizeInvitePayload_NoExpiry(payload) ==
    Object(<<<<"channel", Str(StringOf(payload.channel))>>,
             <<"inviteePubKey",
               Str(TrimLower(StringOf(payload.inviteePubKey)))>>,
             <<"inviterPubKey",
               Str(TrimLower(StringOf(payload.inviterPubKey)))>>,
             <<"inviterAddress", payload.inviterAddress>>,
             <<"issuedAt", ToNumber(payload.issuedAt)>>,
             <<"expiresAt", IF Truthy(ToNumber(payload.expiresAt))
                            THEN ToNumber(payload.expiresAt)
                            ELSE Num(1000000)>>,
             <<"nonce", Str(StringOf(payload.nonce))>>,
             <<"version", IF IsFinite(payload.version)
                          THEN ToNumber(payload.version) ELSE Num(1)>>>>)

\* normalizeInvitePayload, for a payload that has every field
normalizeInvitePayload(payload) ==
    Object(<<<<"channel", Str(StringOf(payload.channel))>>,
             <<"inviteePubKey",
               Str(TrimLower(StringOf(payload.inviteePubKey)))>>,
             <<"inviterPubKey",
               Str(TrimLower(StringOf(payload.inviterPubKey)))>>,
             <<"inviterAddress", payload.inviterAddress>>,
             <<"issuedAt", ToNumber(payload.issuedAt)>>,
             <<"expiresAt", ToNumber(payload.expiresAt)>>,
             <<"nonce", Str(StringOf(payload.nonce))>>,
             <<"version", IF IsFinite(payload.version)
                          THEN ToNumber(payload.version) ELSE Num(1)>>>>)

\* what console.log is called with
Log(text) == <<Str(text)>>
UsageLine ==
    Log("Usage: /sc_invite --channel \"<name>\" --pubkey \"<peer-pubkey-hex>\" [--ttl <sec>] [--welcome <json|b64|@file>]")
NoSidechannelLine == Log("Sidechannel not initialized.")
WalletNotReadyLine == Log("Wallet not ready; cannot sign invite.")
TtlRequiredLine ==
    Log("Invite TTL is required. Pass --ttl <sec> or set --sidechannel-invite-ttl.")
InvalidWelcomeLine == Log("Invalid welcome. Pass JSON, base64, or @file.")
SignFailedLine ==
    Log("Failed to sign invite; wallet secret key unavailable.")
ErrorLines ==
    {UsageLine, NoSidechannelLine, WalletNotReadyLine, TtlRequiredLine,
     InvalidWelcomeLine, SignFailedLine}

\* a || b
OrElse(a, b) == IF Truthy(a) THEN a ELSE b

\* TtlMs that takes the seconds of --ttl for milliseconds
TtlMs_Unscaled(ttlRaw, defaultTtlMs) ==
    IF ttlRaw # Undef
    THEN LET ttlSec == ParseInt(StringOf(ttlRaw))
         IN  IF IsFinite(ttlSec)
             THEN Num(IF ValueOf(ttlSec) > 0 THEN ValueOf(ttlSec) ELSE 0)
             ELSE JNull
    ELSE IF IsFinite(defaultTtlMs) /\ ValueOf(defaultTtlMs) > 0
    THEN defaultTtlMs
    ELSE Num(0)

\* ttlMs: from --ttl in seconds, else the configured invite TTL, else 0
TtlMs(ttlRaw, defaultTtlMs) ==
    IF ttlRaw # Undef
    THEN LET ttlSec == ParseInt(StringOf(ttlRaw))
         IN  IF IsFinite(ttlSec)
             THEN Num((IF ValueOf(ttlSec) > 0 THEN ValueOf(ttlSec) ELSE 0) * 1000)
             ELSE JNull
    ELSE IF IsFinite(defaultTtlMs) /\ ValueOf(defaultTtlMs) > 0
    THEN defaultTtlMs
    ELSE Num(0)

\* the test of ttlMs that lets a time-to-live of zero pass
TtlMissing_NullOnly(ttlMs) == ttlMs = JNull

\* !ttlMs || ttlMs <= 0
TtlMissing(ttlMs) == ~Truthy(ttlMs) \/ ValueOf(ttlMs) <= 0

\* args.ttl || args.ttl_sec || args.ttl_s
TtlRaw(args) == OrElse(args.ttl, OrElse(args.ttl_sec, args.ttl_s))

\* the lines of an invite that was signed
InviteLines(payload, sigHex, welcome) ==
    LET invite == Object(<<<<"payload", payload>>, <<"sig", Str(sigHex)>>,
                           <<"welcome", welcome>>>>)
        inviteJson == JSONtext(invite)
    IN  <<Log(inviteJson), <<Str("invite_b64:"), Base64(inviteJson)>>>>

\* the channels of the sidechannel
ScChannels == {"c1", "c2"}

\* sidechannel.getWelcome(channel): the welcome kept for the channel, or null
getWelcome(stored, channel) ==
    IF channel \in DOMAIN stored THEN stored[channel] ELSE JNull

\* the values of sidechannel.inviteTtlMs
DefaultTtls == {Undef, NaN, Num(0), Num(2000)}

\* normalizeWelcomePayload
normalizeWelcomePayload(payload) ==
    Object(<<<<"channel", Str(StringOf(payload.channel))>>,
             <<"ownerPubKey", Str(TrimLower(StringOf(payload.ownerPubKey)))>>,
             <<"text", Str(StringOf(payload.text))>>,
             <<"issuedAt", ToNumber(payload.issuedAt)>>,
             <<"version", IF IsFinite(payload.version)
                          THEN ToNumber(payload.version) ELSE Num(1)>>>>)

WelcomeUsageLine ==
    Log("Usage: /sc_welcome --channel \"<name>\" --text \"<message>\"")
WelcomeWalletLine == Log("Wallet not ready; cannot sign welcome.")
WelcomeSignFailedLine ==
    Log("Failed to sign welcome; wallet secret key unavailable.")

\* the lines of a welcome that was signed
WelcomeLines(welcome) ==
    LET welcomeJson == JSONtext(welcome)
    IN  <<Log(welcomeJson), <<Str("welcome_b64:"), Base64(welcomeJson)>>>>

\* what one /sc_welcome command logs, what it has the wallet sign, and the
\* welcome it hands to the sidechannel (null when it hands none)
Welcomed(lines, messages, welcome) ==
    [console |-> lines, signed |-> messages, welcome |-> welcome]
sc_welcome(args, peer, time) ==
    LET channel == args.channel
        text == args.text
        ownerPubKey == IF Truthy(peer.publicKey)
                       THEN Str(TrimLower(StringOf(peer.publicKey)))
                       ELSE JNull
        payload == normalizeWelcomePayload(
                       [channel |-> Str(StringOf(channel)),
                        ownerPubKey |-> ownerPubKey,
                        text |-> Str(StringOf(text)),
                        issuedAt |-> Num(time),
                        version |-> Num(1)])
        message == stableStringify(payload)
        sigHex == IF peer.signs THEN "5a" ELSE ""
        welcome == Object(<<<<"payload", payload>>, <<"sig", Str(sigHex)>>>>)
    IN  IF ~Truthy(channel) \/ text = Undef
        THEN Welcomed(<<WelcomeUsageLine>>, {}, JNull)
        ELSE IF ~peer.sidechannel
        THEN Welcomed(<<NoSidechannelLine>>, {}, JNull)
        ELSE IF ~Truthy(ownerPubKey)
        THEN Welcomed(<<WelcomeWalletLine>>, {}, JNull)
        ELSE IF sigHex = ""
        THEN Welcomed(<<WelcomeSignFailedLine>>, {message}, JNull)
        ELSE Welcomed(WelcomeLines(welcome), {message}, welcome)

\* the welcome store that keeps the first welcome of a channel
acceptWelcome_KeepFirst(stored, channel, welcome) ==
    IF stored[channel] = JNull THEN [stored EXCEPT ![channel] = welcome]
    ELSE stored

\* sidechannel.acceptInvite(channel, null, welcome): the welcome is kept for
\* the channel
acceptWelcome(stored, channel, welcome) ==
    [stored EXCEPT ![channel] = welcome]

\* a welcome /sc_welcome made for c1 at time 0
WelcomeOfC1 ==
    sc_welcome([channel |-> Str("c1"), text |-> Str("hi")],
               [sidechannel |-> TRUE, publicKey |-> Str("CD"),
                signs |-> TRUE, nonce |-> "n1"], 0).welcome

\* the texts given as --invite and --welcome: a string, the base64 text of
\* a string, or a prefix followed by such a base64 text
Prefixed(prefix, text) == <<"prefixed", prefix, text>>

\* text.startsWith(prefix); a base64 text has no '@', ':' or '{'
StartsWith(text, prefix) ==
    CASE TypeOf(text) = "string" ->
            /\ Len(ValueOf(text)) >= Len(prefix)
            /\ SubSeq(ValueOf(text), 1, Len(prefix)) = prefix
      [] TypeOf(text) = "prefixed" -> text[2] = prefix
      [] OTHER -> FALSE

\* text.slice(n), n the length of a prefix the text starts with
Slice(text, n) ==
    IF TypeOf(text) = "string"
    THEN Str(SubSeq(ValueOf(text), n + 1, Len(ValueOf(text))))
    ELSE text[3]

\* b4a.toString(b4a.from(text, 'base64')): the string a base64 text
\* encodes; of a text that is no base64 text, bytes that are no JSON text
NoJson == "\\uFFFD"
FromBase64(text) == IF TypeOf(text) = "base64" THEN text[2] ELSE NoJson

\* the times-to-live in milliseconds of the invites issued
IssuedTtls ==
    {60000, 1000}
        \cup {ValueOf(ttl) : ttl \in {d \in DefaultTtls :
                                        IsFinite(d) /\ ValueOf(d) > 0}}

\* what JSON.parse makes of the JSON text of an invite: payload, sig, and
\* the welcome when there is one
JsonInvite(payload, sigHex, welcome) ==
    Object(<<<<"payload", payload>>, <<"sig", Str(sigHex)>>>>
           \o (IF welcome = Undef THEN <<>> ELSE <<<<"welcome", welcome>>>>))

\* the invites issued for c1 by the peer of key cd, with the welcome of c1
\* or none
IssuedInvite(time, ttlMs, welcome) ==
    JsonInvite(normalizeInvitePayload(
                   [channel |-> Str("c1"),
                    inviteePubKey |-> Str("ab"),
                    inviterPubKey |-> Str("cd"),
                    inviterAddress |-> JNull,
                    issuedAt |-> Num(time),
                    expiresAt |-> Num(time + ttlMs),
                    nonce |-> Str("n1"),
                    version |-> Num(1)]),
               "5a", welcome)
IssuedInvites ==
    {IssuedInvite(time, ttlMs, welcome) :
        time \in 0..MaxNow, ttlMs \in IssuedTtls,
        welcome \in {Undef, WelcomeOfC1}}
InviteOfC1 == IssuedInvite(0, 60000, Undef)

\* the objects whose JSON texts are given to the commands
JsonObjects == IssuedInvites \cup {WelcomeOfC1}

\* the files fs.readFileSync can read, by path
Files ==
    [path \in {"invite.json"} |-> Str(JSONtext(InviteOfC1))]

\* JSON.parse(text) of the texts given: the object the text is the JSON
\* text of, what JSONparse makes of it otherwise
JsonTexts == {<<JSONtext(object), object>> : object \in JsonObjects}
Lookup(text, table, otherwise) ==
    IF \E known \in table : known[1] = text
    THEN [ok |-> TRUE,
          value |-> (CHOOSE known \in table : known[1] = text)[2]]
    ELSE otherwise
ParseJson(text) == Lookup(text, JsonTexts, JSONparse(text))

\* String(raw || '')
AsText(raw) == IF TypeOf(raw) = "boolean" THEN Str(StringOf(raw)) ELSE raw

\* the text read for @path: the file's content, or the failure of
\* fs.readFileSync
Unreadable == <<"unreadable">>
Dereferenced(given, files, path) ==
    IF ~StartsWith(given, "@") THEN given
    ELSE IF ValueOf(path) \in DOMAIN files THEN files[ValueOf(path)]
    ELSE Unreadable

\* the text with its b64: prefix left on
Unprefixed_Kept(text) == text

\* if (text.startsWith('b64:')) text = text.slice(4)
Unprefixed(text) == IF StartsWith(text, "b64:") THEN Slice(text, 4) ELSE text

\* the two attempts at the text: JSON.parse when it starts with {, then
\* JSON.parse of its base64 decoding
NotTried == [ok |-> FALSE, value |-> Undef]
FirstParsed(json, decoded) ==
    IF json.ok THEN json.value
    ELSE IF decoded.ok THEN decoded.value
    ELSE JNull
Decoded(text) ==
    FirstParsed(IF StartsWith(text, "{") THEN ParseJson(ValueOf(text))
                ELSE NotTried,
                ParseJson(FromBase64(text)))
ParsedText(read) ==
    IF read = Unreadable THEN JNull ELSE Decoded(Unprefixed(read))

\* parseInviteArg(raw)
parseInviteArg(raw) ==
    IF ~Truthy(raw) THEN JNull
    ELSE ParsedText(Dereferenced(AsText(raw), Files, Slice(AsText(raw), 1)))

\* parseWelcomeArg(raw): the same steps as parseInviteArg
parseWelcomeArg(raw) == parseInviteArg(raw)

\* the welcome of an invite that none is given for, which leaves the
\* sidechannel's welcome out
StoredWelcome_None(stored, channel) == Undef

\* the welcome of an invite that none is given for: the one the sidechannel
\* keeps for the channel, if any (welcome || undefined)
StoredWelcome(stored, channel) ==
    OrElse(getWelcome(stored, StringOf(channel)), Undef)

\* what one /sc_invite command logs and what it has the wallet sign.
\* args is what parseArgs made of the command line; peer tells whether the
\* sidechannel is there, the wallet's public key, and whether a signature
\* can be made.
Output(lines, messages) == [console |-> lines, signed |-> messages]
Inviting(args, peer, defaultTtlMs, time, given, stored) ==
    LET channel == args.channel
        invitee == args.pubkey
        ttlRaw == TtlRaw(args)
        welcomeArg == args.welcome
        inviterPubKey == IF Truthy(peer.publicKey)
                         THEN Str(TrimLower(StringOf(peer.publicKey)))
                         ELSE JNull
        ttlMs == TtlMs(ttlRaw, defaultTtlMs)
        payload == normalizeInvitePayload(
                       [channel |-> Str(StringOf(channel)),
                        inviteePubKey |-> Str(TrimLower(StringOf(invitee))),
                        inviterPubKey |-> inviterPubKey,
                        inviterAddress |-> JNull,
                        issuedAt |-> Num(time),
                        expiresAt |-> Num(time + ValueOf(ttlMs)),
                        nonce |-> Str(peer.nonce),
                        version |-> Num(1)])
        message == stableStringify(payload)
        sigHex == IF peer.signs THEN "5a" ELSE ""
    IN  IF ~Truthy(channel) \/ ~Truthy(invitee)
        THEN Output(<<UsageLine>>, {})
        ELSE IF ~peer.sidechannel
        THEN Output(<<NoSidechannelLine>>, {})
        ELSE IF ~Truthy(inviterPubKey)
        THEN Output(<<WalletNotReadyLine>>, {})
        ELSE IF TtlMissing(ttlMs)
        THEN Output(<<TtlRequiredLine>>, {})
        ELSE IF Truthy(welcomeArg) /\ ~Truthy(given)
        THEN Output(<<InvalidWelcomeLine>>, {message})
        ELSE IF sigHex = ""
        THEN Output(<<SignFailedLine>>, {message})
        ELSE Output(InviteLines(payload, sigHex,
                                IF Truthy(welcomeArg) THEN given
                                ELSE StoredWelcome(stored, channel)),
                    {message})
sc_invite(args, peer, defaultTtlMs, time, stored) ==
    Inviting(args, peer, defaultTtlMs, time, parseWelcomeArg(args.welcome),
             stored)

\* the command lines given: --channel, --pubkey, --ttl and --welcome, each
\* absent, a bare flag or a text; the welcome given is none that parses
ScArgs ==
    [channel : {Undef, Str("c1")},
     pubkey : {Str("AB")},
     ttl : {Undef, Bool(TRUE), Str(""), Str("0"), Str("-5"), Str("abc"),
            Str("1x"), Str("60")},
     ttl_sec : {Undef},
     ttl_s : {Undef},
     welcome : {Undef, Str("bad")}]

ScPeers ==
    [sidechannel : BOOLEAN,
     publicKey : {Undef, Str("CD")},
     signs : BOOLEAN,
     nonce : {"n1"}]

ScInvite ==
    /\ \E args \in ScArgs, peer \in ScPeers :
            LET out == sc_invite(args, peer, inviteTtlMs, now, welcomes)
            IN  /\ Len(console) + Len(out.console) <= MaxLines
                /\ console' = console \o out.console
                /\ signed' = signed \cup out.signed
    /\ UNCHANGED <<inviteTtlMs, now, verified, welcomes, trace, regVars,
                   rpcVars, codecVars, callerVars>>

\* what console.log is called with by /sc_join and /sc_send
JoinUsageLine ==
    Log("Usage: /sc_join --channel \"<name>\" [--invite <json|b64|@file>] [--welcome <json|b64|@file>]")
SendUsageLine ==
    Log("Usage: /sc_send --channel \"<name>\" --message \"<text>\" [--invite <json|b64|@file>] [--welcome <json|b64|@file>]")
InvalidInviteLine == Log("Invalid invite. Pass JSON, base64, or @file.")
JoinDeniedLine == Log("Join denied (invite required or invalid).")
JoinedLine(name) == <<Str("Joined sidechannel:"), name>>
SendDeniedLine == Log("Send denied (invite required or invalid).")
SendRefusedLine == Log("Send denied (owner-only or invite required).")

\* the calls a command made to the sidechannel
Called(method, channel) == <<method, channel>>
Admission(channel, ok) == <<"addChannel", channel, ok>>

\* what a command logs, the calls it made to the sidechannel in their
\* order, and the welcome it handed over, if any
Commanded(lines, made, welcome) ==
    [console |-> lines, trace |-> made, welcome |-> welcome]

\* the outcomes of await sidechannel.addChannel(name): true, false, or a
\* rejection
Admissions == {"admitted", "denied", "rejected"}

\* if (invite || welcome) sidechannel.acceptInvite(String(name), ...)
Accepting(name, invite, welcome) ==
    IF Truthy(invite) \/ Truthy(welcome)
    THEN <<Called("acceptInvite", StringOf(name))>>
    ELSE <<>>

\* /sc_join: invite and welcome are what the arguments parse to,
\* admission tells what addChannel comes to
Joining(args, peer, invite, welcome, admission) ==
    LET name == args.channel
        accepting == Accepting(name, invite, welcome)
    IN  IF ~Truthy(name)
        THEN Commanded(<<JoinUsageLine>>, <<>>, JNull)
        ELSE IF ~peer.sidechannel
        THEN Commanded(<<NoSidechannelLine>>, <<>>, JNull)
        ELSE IF Truthy(args.invite) /\ ~Truthy(invite)
        THEN Commanded(<<InvalidInviteLine>>, <<>>, JNull)
        ELSE IF Truthy(args.welcome) /\ ~Truthy(welcome)
        THEN Commanded(<<InvalidWelcomeLine>>, <<>>, JNull)
        ELSE IF admission = "rejected"
        THEN Commanded(<<>>,
                       accepting \o <<Called("addChannel", StringOf(name))>>,
                       welcome)
        ELSE IF admission = "denied"
        THEN Commanded(<<JoinDeniedLine>>,
                       accepting \o <<Admission(StringOf(name), FALSE)>>,
                       welcome)
        ELSE Commanded(<<JoinedLine(name)>>,
                       accepting \o <<Admission(StringOf(name), TRUE)>>,
                       welcome)
sc_join(args, peer, admission) ==
    Joining(args, peer, parseInviteArg(args.invite),
            parseWelcomeArg(args.welcome), admission)

\* the calls /sc_send makes after addChannel whatever it returned
SendCalls_Ungated(name, message, ok) ==
    <<<<"broadcast", StringOf(name), message>>>>

\* the calls /sc_send makes after addChannel returned ok
SendCalls(name, message, ok) ==
    IF ok THEN <<<<"broadcast", StringOf(name), message>>>> ELSE <<>>

\* /sc_send: invite and welcome are what the arguments parse to,
\* admission tells what addChannel comes to, sent what broadcast returns
Sending(args, peer, invite, welcome, admission, sent) ==
    LET name == args.channel
        message == OrElse(args.message, args.msg)
        accepting == Accepting(name, invite, welcome)
    IN  IF ~Truthy(name) \/ message = Undef
        THEN Commanded(<<SendUsageLine>>, <<>>, JNull)
        ELSE IF ~peer.sidechannel
        THEN Commanded(<<NoSidechannelLine>>, <<>>, JNull)
        ELSE IF Truthy(args.invite) /\ ~Truthy(invite)
        THEN Commanded(<<InvalidInviteLine>>, <<>>, JNull)
        ELSE IF Truthy(args.welcome) /\ ~Truthy(welcome)
        THEN Commanded(<<InvalidWelcomeLine>>, <<>>, JNull)
        ELSE IF admission = "rejected"
        THEN Commanded(<<>>,
                       accepting \o <<Called("addChannel", StringOf(name))>>,
                       welcome)
        ELSE IF admission = "denied"
        THEN Commanded(<<SendDeniedLine>>,
                       accepting \o <<Admission(StringOf(name), FALSE)>>
                           \o SendCalls(name, message, FALSE),
                       welcome)
        ELSE Commanded(IF sent THEN <<>> ELSE <<SendRefusedLine>>,
                       accepting \o <<Admission(StringOf(name), TRUE)>>
                           \o SendCalls(name, message, TRUE),
                       welcome)
sc_send(args, peer, admission, sent) ==
    Sending(args, peer, parseInviteArg(args.invite),
            parseWelcomeArg(args.welcome), admission, sent)

\* the command lines of /sc_join and /sc_send: --channel, --message,
\* --invite and --welcome, each absent or a text
InviteTexts ==
    {Undef, Str(JSONtext(InviteOfC1)), Base64(JSONtext(InviteOfC1)),
     Prefixed("b64:", Base64(JSONtext(InviteOfC1))), Str("@invite.json"),
     Str("@none.json"), Str("bad"), Base64("null")}
WelcomeTexts == {Undef, Base64(JSONtext(WelcomeOfC1)), Str("bad")}
CommandInvites ==
    {Undef, Prefixed("b64:", Base64(JSONtext(InviteOfC1))),
     Str("@invite.json"), Str("bad")}
JoinArgs ==
    [channel : {Undef, Str("c1"), Str("c2")},
     invite : CommandInvites,
     welcome : WelcomeTexts]
SendArgs ==
    [channel : {Undef, Str("c1"), Str("c2")},
     message : {Undef, Str(""), Str("hello"), Str("bye")},
     msg : {Undef},
     invite : CommandInvites,
     welcome : WelcomeTexts]
ChannelPeers ==
    [sidechannel : BOOLEAN, publicKey : {Str("CD")}, signs : {TRUE},
     nonce : {"n1"}]

\* the welcome store after a command handed over a welcome or none
Keeping(stored, channel, welcome) ==
    IF Truthy(welcome) THEN acceptWelcome(stored, StringOf(channel), welcome)
    ELSE stored

\* a /sc_join command; console and trace hold what this command printed and
\* the calls it made
ScJoin ==
    /\ \E args \in JoinArgs, peer \in ChannelPeers, admission \in Admissions :
            LET out == sc_join(args, peer, admission)
            IN  /\ console' = out.console
                /\ trace' = out.trace
                /\ welcomes' = Keeping(welcomes, args.channel, out.welcome)
    /\ UNCHANGED <<inviteTtlMs, now, signed, verified, regVars, rpcVars,
                   codecVars, callerVars>>

\* a /sc_send command
ScSend ==
    /\ \E args \in SendArgs, peer \in ChannelPeers, admission \in Admissions,
          sent \in BOOLEAN :
            LET out == sc_send(args, peer, admission, sent)
            IN  /\ console' = out.console
                /\ trace' = out.trace
                /\ welcomes' = Keeping(welcomes, args.channel, out.welcome)
    /\ UNCHANGED <<inviteTtlMs, now, signed, verified, regVars, rpcVars,
                   codecVars, callerVars>>

\* the command lines of /sc_welcome: --channel and --text
WelcomeArgs ==
    [channel : {Undef, Str("c1"), Str("c2")}, text : {Undef, Str("hi")}]

\* a /sc_welcome command; console and signed hold what this command printed
\* and had signed
ScWelcome ==
    /\ \E args \in WelcomeArgs, peer \in ScPeers :
            LET out == sc_welcome(args, peer, now)
            IN  /\ console' = out.console
                /\ signed' = out.signed
                /\ IF out.welcome = JNull
                   THEN UNCHANGED <<welcomes, trace>>
                   ELSE /\ welcomes' =
                            acceptWelcome(welcomes, StringOf(args.channel),
                                          out.welcome)
                        /\ trace' = <<Called("acceptInvite",
                                             StringOf(args.channel))>>
    /\ UNCHANGED <<inviteTtlMs, now, verified, regVars, rpcVars, codecVars,
                   callerVars>>

\* a /sc_invite command; console and signed hold what this command printed
\* and had signed
IssueInvite ==
    /\ \E args \in ScArgs, peer \in ScPeers :
            LET out == sc_invite(args, peer, inviteTtlMs, now, welcomes)
            IN  /\ console' = out.console
                /\ signed' = out.signed
    /\ UNCHANGED <<inviteTtlMs, now, verified, welcomes, trace, regVars,
                   rpcVars, codecVars, callerVars>>

\* the command lines of /sc_invite for either channel, with a welcome
\* given or none
ChannelInviteArgs ==
    [channel : {Str("c1"), Str("c2")},
     pubkey : {Str("AB")},
     ttl : {Undef, Str("60")},
     ttl_sec : {Undef},
     ttl_s : {Undef},
     welcome : WelcomeTexts]

\* a /sc_invite command for a channel
InviteToChannel ==
    /\ \E args \in ChannelInviteArgs, peer \in ChannelPeers :
            LET out == sc_invite(args, peer, inviteTtlMs, now, welcomes)
            IN  /\ console' = out.console
                /\ signed' = out.signed
    /\ UNCHANGED <<inviteTtlMs, now, verified, welcomes, trace, regVars,
                   rpcVars, codecVars, callerVars>>

\* Date.now() moves on
Tick ==
    /\ now < MaxNow
    /\ now' = now + 1
    /\ UNCHANGED <<inviteTtlMs, console, signed, verified, welcomes, trace,
                   regVars, rpcVars, codecVars, callerVars>>

-----------------------------------------------------------------------------
(* Invite verification (the sidechannel's verifyInvite)                    *)

\* the signature of a message under a key, and its verification
Signature(message, publicKey) == <<"signature", publicKey, message>>
Verifies(sig, message, publicKey) == sig = Signature(message, publicKey)

\* a < b on numbers: false when either side is NaN
LessThan(a, b) ==
    /\ TypeOf(a) = "number"
    /\ TypeOf(b) = "number"
    /\ ValueOf(a) < ValueOf(b)

\* verifyInvite(invite, expectedChannel) at the time given
verifyInvite(invite, expectedChannel, time) ==
    LET payload == normalizeInvitePayload(invite.payload)
        message == stableStringify(payload)
    IN  /\ Verifies(invite.sig, message,
                    ValueOf(Prop(payload, "inviterPubKey")))
        /\ Prop(payload, "channel") = Str(expectedChannel)
        /\ LessThan(Num(time), Prop(payload, "expiresAt"))

\* the payloads of the invites received: any channel, any expiry
ReceivedPayloads ==
    [channel : {Str("c1"), Str("c2")},
     inviteePubKey : {Str("ab")},
     inviterPubKey : {Str("cd")},
     inviterAddress : {JNull},
     issuedAt : {Num(0)},
     expiresAt : {Num(t) : t \in 0..(MaxNow + 1)} \cup {Undef, JNull},
     nonce : {Str("n1")},
     version : {Num(1)}]

\* the invites received: signed by the inviter, by another key, or with
\* the signature of another message
SignaturesFor(payload) ==
    {Signature(stableStringify(normalizeInvitePayload(payload)), key) :
        key \in {"cd", "ee"}} \cup {Signature("{}", "cd")}
ReceivedInvites ==
    UNION {{[payload |-> payload, sig |-> sig] : sig \in SignaturesFor(payload)} :
            payload \in ReceivedPayloads}

VerifyInvite ==
    /\ \E invite \in ReceivedInvites, expectedChannel \in {"c1", "c2"} :
            verified' = Some([invite |-> invite,
                              expectedChannel |-> expectedChannel,
                              accepted |-> verifyInvite(invite, expectedChannel,
                                                        now)])
    /\ UNCHANGED <<inviteTtlMs, now, console, signed, welcomes, trace,
                   regVars, rpcVars, codecVars, callerVars>>

-----------------------------------------------------------------------------

\* the contract and the dispatcher as constructed
InitRegistry ==
    /\ store = [k \in Keys |-> NULL]
    /\ ret = Ret("init", "-", "-", OK, <<>>)
    /\ calls = <<>>
    /\ begun = 0
    /\ succeeded = {}

\* nothing encoded, no protocol command given
IdleCodec ==
    /\ doc = <<"null">>
    /\ canon = ""

IdleProtocol ==
    /\ inviteTtlMs = NULL
    /\ now = 0
    /\ console = <<>>
    /\ signed = {}
    /\ verified = NULL
    /\ welcomes = [channel \in ScChannels |-> JNull]
    /\ trace = <<>>

IdleRpc ==
    /\ tools = <<>>
    /\ autoRegisterInContract = TRUE
    /\ peerTx = FALSE
    /\ publishing = <<>>
    /\ running = <<>>
    /\ reply = [op |-> "init", invoked |-> NoHandler, outcome |-> "returned",
                value |-> Undef]
    /\ listed = NULL

InitDispatcher ==
    /\ IdleCodec
    /\ IdleProtocol
    /\ IdleRpc

Init ==
    /\ InitRegistry
    /\ InitDispatcher
    /\ enabledChannels = NULL

\* the dispatcher constructed without a channel allow-list, or with one
\* (an empty list is a list: [] || null is [])
InitRpc ==
    /\ InitRegistry
    /\ InitDispatcher
    /\ enabledChannels \in {NULL, Some(<<"rpc">>), Some(<<>>)}

RegisterService ==
    /\ \E a \in Addresses, v \in RegisterValues : registerService(a, v)
    /\ UNCHANGED <<calls, begun, succeeded, rpcVars, codecVars, scVars, callerVars>>

UpdateService ==
    /\ \E a \in Addresses, v \in UpdateValues : updateService(a, v)
    /\ UNCHANGED <<calls, begun, succeeded, rpcVars, codecVars, scVars, callerVars>>

RemoveService ==
    /\ \E a \in Addresses, v \in RemoveValues : removeService(a, v)
    /\ UNCHANGED <<calls, begun, succeeded, rpcVars, codecVars, scVars, callerVars>>

ListServices ==
    /\ listServices
    /\ UNCHANGED <<calls, begun, succeeded, rpcVars, codecVars, scVars, callerVars>>

GetServiceById ==
    /\ \E v \in GetServiceValues : getServiceById(v)
    /\ UNCHANGED <<calls, begun, succeeded, rpcVars, codecVars, scVars, callerVars>>

GetProviderServices ==
    /\ \E v \in GetProviderSvcsValues : getProviderServices(v)
    /\ UNCHANGED <<calls, begun, succeeded, rpcVars, codecVars, scVars, callerVars>>

TimerFeature ==
    /\ \E k \in {"currentTime", "other"}, t \in 1..MaxTime : timer_feature(k, t)
    /\ UNCHANGED <<calls, begun, succeeded, rpcVars, codecVars, scVars, callerVars>>

Next ==
    \/ RegisterService
    \/ UpdateService
    \/ RemoveService
    \/ ListServices
    \/ GetServiceById
    \/ GetProviderServices
    \/ TimerFeature

Spec == Init /\ [][Next]_vars

rpcConfig == <<enabledChannels, autoRegisterInContract, peerTx>>

RegisterTool ==
    /\ \E in \in ToolInputs :
            registerTool(in.methodName, in.handler, in.metadata)
    /\ UNCHANGED <<running, rpcConfig, regVars, codecVars, scVars, callerVars>>

HandleMessage ==
    /\ \E channel \in Channels, payload \in Payloads :
            handleMessage(channel, payload)
    /\ UNCHANGED <<tools, publishing, rpcConfig, regVars, codecVars, scVars, callerVars>>

HandlerSettles ==
    /\ \E i \in 1..Len(running) : handlerSettles(i)
    /\ UNCHANGED <<tools, publishing, rpcConfig, regVars, codecVars, scVars, callerVars>>

NextRpc ==
    \/ RegisterTool
    \/ HandleMessage
    \/ HandlerSettles

SpecRpc == InitRpc /\ [][NextRpc]_vars

\* a caller asks for the list of tools and keeps it
ListTools ==
    /\ listed' = Some(Snapshot(listTools))
    /\ UNCHANGED <<tools, publishing, running, reply, rpcConfig, regVars,
                   codecVars, scVars>>

\* the tool table: registrations and listings
NextTools ==
    \/ RegisterTool
    \/ ListTools

SpecTools == Init /\ [][NextTools]_vars

\* the tool tables left by registerTool calls for calc.add and echo
ToolTables ==
    {<<ToolEntry("calc.add", "calculator.add", AddMetadata),
       ToolEntry("echo", "echo", NoMetadata)>>,
     <<ToolEntry("calc.add", "failEmpty", NoMetadata),
       ToolEntry("echo", "noReturn", NoMetadata)>>,
     <<ToolEntry("echo", "throwNull", NoMetadata),
       ToolEntry("calc.add", "calculator.add", NoMetadata)>>}

\* the dispatcher with its tools registered, no channel allow-list
InitConcurrent ==
    /\ InitRegistry
    /\ IdleCodec
    /\ IdleProtocol
    /\ enabledChannels = NULL
    /\ tools \in ToolTables
    /\ autoRegisterInContract = TRUE
    /\ peerTx = FALSE
    /\ publishing = <<>>
    /\ running = <<>>
    /\ reply = [op |-> "init", invoked |-> NoHandler, outcome |-> "returned",
                value |-> Undef]
    /\ listed = NULL

\* the requests received for the registered methods
ToolRequests ==
    {payload \in Payloads : _parseJsonRpc(payload).kind = "request"}

HandleToolRequest ==
    /\ \E channel \in Channels, payload \in ToolRequests :
            handleMessageWithin(channel, payload, MaxInProgress)
    /\ UNCHANGED <<tools, publishing, rpcConfig, regVars, codecVars, scVars, callerVars>>

NextConcurrent ==
    \/ HandleToolRequest
    \/ HandlerSettles

SpecConcurrent == InitConcurrent /\ [][NextConcurrent]_vars

\* the handler of the i-th call in progress completes or fails
SettlesAt(i) ==
    /\ i \in 1..Len(running)
    /\ handlerSettles(i)
    /\ UNCHANGED <<tools, publishing, rpcConfig, regVars, codecVars, scVars, callerVars>>

\* the dispatcher with every handler invocation settling in the end
SpecSettling ==
    /\ InitConcurrent
    /\ [][NextConcurrent]_vars
    /\ \A i \in 1..MaxInProgress : WF_vars(SettlesAt(i))

\* a payload about to be signed
InitCodec ==
    /\ InitRegistry
    /\ IdleRpc
    /\ IdleProtocol
    /\ enabledChannels = NULL
    /\ doc \in Documents
    /\ canon = ""

NextCodec ==
    \/ StableStringify
    \/ Reorder

SpecCodec == InitCodec /\ [][NextCodec]_vars

\* the protocol with its sidechannel configured, no command given yet
InitInvite ==
    /\ InitRegistry
    /\ IdleRpc
    /\ IdleCodec
    /\ enabledChannels = NULL
    /\ inviteTtlMs \in DefaultTtls
    /\ now = 0
    /\ console = <<>>
    /\ signed = {}
    /\ verified = NULL
    /\ welcomes = [channel \in ScChannels |-> JNull]
    /\ trace = <<>>

NextInvite ==
    \/ ScInvite
    \/ Tick

SpecInvite == InitInvite /\ [][NextInvite]_vars

\* one /sc_invite command, given at any time, with any invite TTL
\* configured, the sidechannel keeping a welcome for c1 or none
InitIssue ==
    /\ InitRegistry
    /\ IdleRpc
    /\ IdleCodec
    /\ enabledChannels = NULL
    /\ inviteTtlMs \in DefaultTtls
    /\ now \in 0..MaxNow
    /\ console = <<>>
    /\ signed = {}
    /\ verified = NULL
    /\ welcomes \in {[channel \in ScChannels |-> JNull],
                      acceptWelcome([channel \in ScChannels |-> JNull],
                                    "c1", WelcomeOfC1)}
    /\ trace = <<>>

SpecIssue == InitIssue /\ [][IssueInvite]_vars

\* the protocol with an invite TTL of 2000 ms configured, no command given
InitWelcome ==
    /\ InitRegistry
    /\ IdleRpc
    /\ IdleCodec
    /\ enabledChannels = NULL
    /\ inviteTtlMs = Num(2000)
    /\ now = 0
    /\ console = <<>>
    /\ signed = {}
    /\ verified = NULL
    /\ welcomes = [channel \in ScChannels |-> JNull]
    /\ trace = <<>>

\* welcomes signed and invites issued as time goes by
NextWelcome ==
    \/ ScWelcome
    \/ InviteToChannel
    \/ Tick

SpecWelcome == InitWelcome /\ [][NextWelcome]_vars

\* joining and sending on the sidechannel
NextAdmission ==
    \/ ScJoin
    \/ ScSend

SpecAdmission == InitWelcome /\ [][NextAdmission]_vars

\* a peer that receives invites
InitVerify ==
    /\ InitRegistry
    /\ InitDispatcher
    /\ enabledChannels = NULL

NextVerify ==
    \/ VerifyInvite
    \/ Tick

SpecVerify == InitVerify /\ [][NextVerify]_vars

\* the registry with its calls interleaved at their store accesses, begun
\* on an empty store or after addrA has registered s1
InitAsync ==
    /\ InitDispatcher
    /\ enabledChannels = NULL
    /\ store \in {[k \in Keys |-> NULL],
                  RegisterWrites([k \in Keys |-> NULL],
                                 RegisterValue("s1", undefined), "addrA")}
    /\ ret = Ret("init", "-", "-", OK, <<>>)
    /\ calls = <<>>
    /\ begun = 0
    /\ succeeded = {}

Invoke ==
    /\ \E call \in ContractCalls : invoke(call)
    /\ UNCHANGED <<rpcVars, codecVars, scVars, callerVars>>

RegisterServiceAccess ==
    /\ \E i \in 1..Len(calls) :
            /\ calls[i].op = "registerService"
            /\ access(i, registerServiceAccess(store, calls[i]))
    /\ UNCHANGED <<rpcVars, codecVars, scVars, callerVars>>

UpdateServiceAccess ==
    /\ \E i \in 1..Len(calls) :
            /\ calls[i].op = "updateService"
            /\ access(i, updateServiceAccess(store, calls[i]))
    /\ UNCHANGED <<rpcVars, codecVars, scVars, callerVars>>

RemoveServiceAccess ==
    /\ \E i \in 1..Len(calls) :
            /\ calls[i].op = "removeService"
            /\ access(i, removeServiceAccess(store, calls[i]))
    /\ UNCHANGED <<rpcVars, codecVars, scVars, callerVars>>

ListServicesAccess ==
    /\ \E i \in 1..Len(calls) :
            /\ calls[i].op = "listServices"
            /\ access(i, listServicesAccess(store, calls[i]))
    /\ UNCHANGED <<rpcVars, codecVars, scVars, callerVars>>

GetServiceByIdAccess ==
    /\ \E i \in 1..Len(calls) :
            /\ calls[i].op = "getServiceById"
            /\ access(i, getServiceByIdAccess(store, calls[i]))
    /\ UNCHANGED <<rpcVars, codecVars, scVars, callerVars>>

GetProviderServicesAccess ==
    /\ \E i \in 1..Len(calls) :
            /\ calls[i].op = "getProviderServices"
            /\ access(i, getProviderServicesAccess(store, calls[i]))
    /\ UNCHANGED <<rpcVars, codecVars, scVars, callerVars>>

NextAsync ==
    \/ Invoke
    \/ RegisterServiceAccess
    \/ UpdateServiceAccess
    \/ RemoveServiceAccess
    \/ ListServicesAccess
    \/ GetServiceByIdAccess
    \/ GetProviderServicesAccess

SpecAsync == InitAsync /\ [][NextAsync]_vars

\* the requests delivered while tools are being published
BridgePayloads ==
    {Request(Str("calc.add"), Arr(<<Num(5), Num(3)>>), Num(1)),
     Request(Str("echo"), Arr(<<Num(5)>>), Str("a"))}

\* the dispatcher constructed on a peer whose protocol is ready or not, with
\* publication switched on or off
InitBridge ==
    /\ InitRegistry
    /\ IdleCodec
    /\ IdleProtocol
    /\ tools = <<>>
    /\ autoRegisterInContract \in BOOLEAN
    /\ peerTx \in BOOLEAN
    /\ publishing = <<>>
    /\ running = <<>>
    /\ reply = [op |-> "init", invoked |-> NoHandler, outcome |-> "returned",
                value |-> Undef]
    /\ listed = NULL
    /\ enabledChannels = NULL

PublicationSettles ==
    /\ \E i \in 1..Len(publishing), settled \in PublicationOutcomes,
          debug \in BOOLEAN : publicationSettles(i, settled, debug)
    /\ UNCHANGED <<tools, running, reply, rpcConfig, regVars, codecVars, scVars,
                   callerVars>>

HandleRequest ==
    /\ \E channel \in Channels, payload \in BridgePayloads :
            handleMessage(channel, payload)
    /\ UNCHANGED <<tools, publishing, rpcConfig, regVars, codecVars, scVars,
                   callerVars>>

NextBridge ==
    \/ RegisterTool
    \/ PublicationSettles
    \/ HandleRequest
    \/ HandlerSettles

SpecBridge == InitBridge /\ [][NextBridge]_vars

\* the dispatcher publishing into the registry of the contract: the service
\* ids of its tools, the address of its peer, the keys of the registry
ToolServiceIds == {"calc_add", "calc.add", "echo"}
PeerAddress == "addrA"
ToolKeys ==
    {ServiceKey(s) : s \in ToolServiceIds}
        \cup {IndexKey, ProviderKey(PeerAddress), TimeKey}

\* a second description and price for echo
EchoMetadata ==
    [description |-> "Echo v2", priceInTNK |-> "5", category |-> undefined,
     serviceId |-> undefined]

\* the registerTool calls made: echo, echo again with other metadata (and
\* another handler), calc.add under a service id of its own and under its
\* method name
PublishedInputs ==
    {[methodName |-> "echo", handler |-> "echo", metadata |-> NoMetadata],
     [methodName |-> "echo", handler |-> "noReturn",
      metadata |-> EchoMetadata],
     [methodName |-> "calc.add", handler |-> "calculator.add",
      metadata |-> AddMetadata],
     [methodName |-> "calc.add", handler |-> "failEmpty",
      metadata |-> NoMetadata]}

InitPublish ==
    /\ store = [k \in ToolKeys |-> NULL]
    /\ ret = Ret("init", "-", "-", OK, <<>>)
    /\ calls = <<>>
    /\ begun = 0
    /\ succeeded = {}
    /\ IdleCodec
    /\ IdleProtocol
    /\ tools = <<>>
    /\ autoRegisterInContract = TRUE
    /\ peerTx = TRUE
    /\ publishing = <<>>
    /\ running = <<>>
    /\ reply = [op |-> "init", invoked |-> NoHandler, outcome |-> "returned",
                value |-> Undef]
    /\ listed = NULL
    /\ enabledChannels = NULL

RegisterPublished ==
    /\ \E in \in PublishedInputs :
            registerTool(in.methodName, in.handler, in.metadata)
    /\ UNCHANGED <<running, rpcConfig, regVars, codecVars, scVars,
                   callerVars>>

\* the transaction of publication i is executed: the contract runs
\* registerService with the command, for the address of the peer
PublicationLands ==
    /\ \E i \in 1..Len(publishing) :
            /\ registerService(PeerAddress, publishing[i])
            /\ publishing' = Without(publishing, i)
    /\ UNCHANGED <<tools, running, reply, rpcConfig, calls, begun, succeeded,
                   codecVars, scVars, callerVars>>

NextPublish ==
    \/ RegisterPublished
    \/ PublicationLands

SpecPublish == InitPublish /\ [][NextPublish]_vars

-----------------------------------------------------------------------------
(* Registry claims                                                         *)

\* the record stored at services/<serviceId> (the key must hold one)
RecordAt(s, serviceId) == get(s, ServiceKey(serviceId))[1]

HasRecord(s, serviceId) == get(s, ServiceKey(serviceId)) # NULL

\* the fields a register_service transaction submits, as getServiceById
\* returns them, with the given category
SubmittedIntact(out, a, v, category) ==
    /\ Len(out) = 1
    /\ out[1].active = TRUE
    /\ out[1].providerAddress = a
    /\ out[1].serviceId = v.serviceId
    /\ out[1].method = v.method
    /\ out[1].description = v.description
    /\ out[1].priceInTNK = v.priceInTNK
    /\ out[1].category = category

\* C1 as claimed: registerService of an id with no record, followed by
\* getServiceById, returns an active record of the caller with every submitted
\* field intact, the category being the submitted one, or "general" when it
\* was omitted.
C1_AsClaimed ==
    [][ret'.op = "registerService" =>
        \A v \in RegisterValues :
            (/\ v.serviceId = ret'.arg
             /\ ~HasRecord(store, v.serviceId)
             /\ registerService(ret'.address, v)) =>
                /\ ret'.error = OK
                /\ SubmittedIntact(getServiceByIdOut(store', v.serviceId),
                        ret'.address, v,
                        IF v.category = undefined THEN "general"
                        ELSE v.category)]_vars

\* C1 amended: registerService of an id with no record, followed by
\* getServiceById, returns an active record of the caller with serviceId,
\* method, description and priceInTNK as submitted; the category is the
\* submitted one when it is a non-empty string, and "general" when it was
\* omitted or empty.
C1_RegisterThenGet ==
    [][ret'.op = "registerService" =>
        \A v \in RegisterValues :
            (/\ v.serviceId = ret'.arg
             /\ ~HasRecord(store, v.serviceId)
             /\ registerService(ret'.address, v)) =>
                /\ ret'.error = OK
                /\ SubmittedIntact(getServiceByIdOut(store', v.serviceId),
                        ret'.address, v,
                        IF v.category \in {undefined, ""} THEN "general"
                        ELSE v.category)]_vars

\* a registerService has just succeeded and its submitted category is stored
C1_Witness ==
    /\ ret.op = "registerService"
    /\ ret.error = OK
    /\ getServiceByIdOut(store, ret.arg) # <<>>
    /\ RecordAt(store, ret.arg).category = "math"
    /\ RecordAt(store, ret.arg).providerAddress = ret.address

\* C2: registerService for an id that already has a record (active or
\* inactive, of any provider) returns AlreadyExists and leaves the record,
\* services_index and every providers/<address> list unchanged.
C2_DuplicateRejected ==
    [][(ret'.op = "registerService"
            /\ HasRecord(store, ret'.arg)) =>
        /\ ret'.error = AlreadyExists
        /\ store' = store]_vars

\* a registerService by another provider for a removed id was rejected
C2_Witness ==
    /\ ret.op = "registerService"
    /\ ret.error = AlreadyExists
    /\ ~RecordAt(store, ret.arg).active
    /\ RecordAt(store, ret.arg).providerAddress # ret.address

\* C3: updateService by a caller other than the record's providerAddress
\* returns Unauthorized and leaves the record and both indices unchanged.
C3_NonOwnerUpdateRejected ==
    [][(/\ ret'.op = "updateService"
        /\ HasRecord(store, ret'.arg)
        /\ RecordAt(store, ret'.arg).providerAddress
                # ret'.address) =>
        /\ ret'.error = Unauthorized
        /\ store' = store]_vars

\* an updateService by a non-owner was rejected
C3_Witness ==
    /\ ret.op = "updateService"
    /\ ret.error = Unauthorized
    /\ RecordAt(store, ret.arg).providerAddress # ret.address

\* listServices does not include serviceId
NotListed(s, serviceId) ==
    \A i \in 1..Len(listServicesOut(s)) :
        listServicesOut(s)[i].serviceId # serviceId

\* C4 as claimed: after a successful removeService(id), listServices does not
\* include id and getServiceById(id) still returns the record, with
\* active=false.
C4_AsClaimed ==
    (ret.op = "removeService" /\ ret.error = OK) =>
        /\ NotListed(store, ret.arg)
        /\ getServiceByIdOut(store, ret.arg)
                = <<RecordAt(store, ret.arg)>>
        /\ ~RecordAt(store, ret.arg).active

\* C4 amended: after a successful removeService(id), listServices does not
\* include id and getServiceById(id) returns no record (it reports "not found
\* or inactive"), while the record stays stored at services/<id> with
\* active=false.
C4_RemovedHiddenButStored ==
    (ret.op = "removeService" /\ ret.error = OK) =>
        /\ NotListed(store, ret.arg)
        /\ getServiceByIdOut(store, ret.arg) = <<>>
        /\ HasRecord(store, ret.arg)
        /\ ~RecordAt(store, ret.arg).active

\* a removeService by the owner has just succeeded while another service is
\* still listed
C4_Witness ==
    /\ ret.op = "removeService"
    /\ ret.error = OK
    /\ RecordAt(store, ret.arg).providerAddress = ret.address
    /\ Len(listServicesOut(store)) = 1

-----------------------------------------------------------------------------
(* Dispatcher claims                                                       *)

\* handleMessage has returned null without invoking a handler
NullReply ==
    [op |-> "handleMessage", invoked |-> NoHandler, outcome |-> "returned",
     value |-> JNull]

\* the channel passes the allow-list, if there is one
Accepted(channel) ==
    enabledChannels = NULL
        \/ \E i \in 1..Len(enabledChannels[1]) : enabledChannels[1][i] = channel

\* what a payload carries: itself, or what its text decodes to (if it does)
Carried(payload) ==
    IF TypeOf(payload) = "string" THEN JSONparse(ValueOf(payload))
    ELSE [ok |-> TRUE, value |-> payload]

HasKey(json, name) == TypeOf(json) = "object" /\ name \in DOMAIN ValueOf(json)

\* an object with jsonrpc "2.0" and a string method
RpcShaped(json) ==
    /\ HasKey(json, "jsonrpc")
    /\ ValueOf(json).jsonrpc = Str("2.0")
    /\ HasKey(json, "method")
    /\ TypeOf(ValueOf(json).method) = "string"

\* a conforming request: RpcShaped and with an id
Conforming(payload) ==
    /\ Carried(payload).ok
    /\ RpcShaped(Carried(payload).value)
    /\ HasKey(Carried(payload).value, "id")

MethodIn(payload) == ValueOf(ValueOf(Carried(payload).value).method)
IdIn(payload) == ValueOf(Carried(payload).value).id

\* the request carries params, an ordered sequence
HasParams(payload) ==
    /\ HasKey(Carried(payload).value, "params")
    /\ TypeOf(ValueOf(Carried(payload).value).params) = "array"

ParamsIn(payload) == ValueOf(Carried(payload).value).params

\* the payloads delivered that are conforming requests, and those of them
\* that carry params
Requests == {payload \in Payloads : Conforming(payload)}
RequestsWithParams == {payload \in Requests : HasParams(payload)}

\* a step in which an awaiting call ends
SettleStep == Len(running') < Len(running)

\* the tool table holds an entry for the method
Registered(method) == \E i \in 1..Len(tools) : tools[i].method = method

\* the handler of that entry
HandlerOf(method) ==
    (CHOOSE e \in {tools[i] : i \in 1..Len(tools)} : e.method = method).handler

\* handleMessage, given a conforming request with params for a registered
\* method on an accepted channel, invokes the registered handler on those
\* params, once, and awaits it
InvokesRegistered ==
    \A channel \in Channels, payload \in RequestsWithParams :
        (Accepted(channel) /\ Registered(MethodIn(payload))) =>
            LET to == handleMessageToAwait(channel, payload)
            IN  /\ to.awaits
                /\ to.call.handler = HandlerOf(MethodIn(payload))
                /\ to.call.request =
                        [jsonrpc |-> Str("2.0"),
                         method |-> Str(MethodIn(payload)),
                         params |-> ParamsIn(payload),
                         id |-> IdIn(payload)]

\* what the handler of the awaiting call i settles to, given its params
Outcome(i) == CallHandler(running[i].handler, running[i].request.params)

AwaitsWithParams(i) == TypeOf(running[i].request.params) = "array"

\* C6: for a registered method whose handler returns v for params p,
\* handleMessage given the conforming request {jsonrpc "2.0", method, params p,
\* id i} (on an accepted channel) returns exactly {jsonrpc "2.0", result v,
\* id i}; calc.add with [5,3] and id 1 returns result 8 with id 1.
C6_ResultEnvelope ==
    /\ []InvokesRegistered
    /\ [][SettleStep => \A i \in 1..Len(running) :
            (/\ AwaitsWithParams(i)
             /\ Outcome(i).kind = "return"
             /\ handlerSettles(i)) =>
                /\ reply'.outcome = "returned"
                /\ reply'.value =
                        Obj([jsonrpc |-> Str("2.0"),
                             result |-> Outcome(i).value,
                             id |-> running[i].request.id])
                /\ (/\ running[i].handler = "calculator.add"
                    /\ running[i].request.params = Arr(<<Num(5), Num(3)>>)
                    /\ running[i].request.id = Num(1)) =>
                        reply'.value =
                            Obj([jsonrpc |-> Str("2.0"), result |-> Num(8),
                                 id |-> Num(1)])]_vars

\* calc.add, registered with calculator.add, has answered [5,3], id 1 with 8
C6_Witness ==
    /\ reply.outcome = "returned"
    /\ reply.invoked = "calculator.add"
    /\ reply.value = Obj([jsonrpc |-> Str("2.0"), result |-> Num(8),
                          id |-> Num(1)])

\* the error envelope has this code and this id, and no result
IsErrorEnvelope(value, code, id) ==
    /\ TypeOf(value) = "object"
    /\ DOMAIN ValueOf(value) = {"jsonrpc", "error", "id"}
    /\ ValueOf(value).jsonrpc = Str("2.0")
    /\ ValueOf(value).id = id
    /\ Field(ValueOf(value).error, "code") = Num(code)

\* C7: for a conforming request whose method is not in the tool table at the
\* time of the call (on an accepted channel), handleMessage returns an error
\* envelope with code -32601 and the request's id, and invokes no handler.
C7_MethodNotFound ==
    \A channel \in Channels, payload \in Requests :
        (Accepted(channel) /\ ~Registered(MethodIn(payload))) =>
            LET to == handleMessageToAwait(channel, payload)
            IN  /\ ~to.awaits
                /\ to.completed.outcome = "returned"
                /\ IsErrorEnvelope(to.completed.value, -32601, IdIn(payload))
                /\ to.completed.invoked = NoHandler

\* an echo request was answered "method not found" while another tool was
\* registered
C7_Witness ==
    /\ reply.outcome = "returned"
    /\ reply.invoked = NoHandler
    /\ IsErrorEnvelope(reply.value, -32601, Str("a"))
    /\ Registered("calc.add")
    /\ ~Registered("echo")

\* the handler of the awaiting call i fails with an Error
FailsWithError(i) ==
    /\ Outcome(i).kind = "throw"
    /\ TypeOf(Outcome(i).value) = "error"

\* the message of that Error
MessageThrown(i) == ValueOf(Outcome(i).value).message

\* C8 as claimed: when the handler of a conforming request fails with a
\* failure carrying message m, handleMessage returns an error envelope with
\* code -32000, message m and the request's id.
C8_AsClaimed ==
    [][SettleStep => \A i \in 1..Len(running) :
        (AwaitsWithParams(i) /\ FailsWithError(i) /\ handlerSettles(i)) =>
            /\ reply'.outcome = "returned"
            /\ IsErrorEnvelope(reply'.value, -32000, running[i].request.id)
            /\ Field(ValueOf(reply'.value).error, "message")
                    = MessageThrown(i)]_vars

\* C8 amended: when the handler of a conforming request (on an accepted
\* channel) fails with a failure carrying message m, handleMessage returns an
\* error envelope with code -32000 and the request's id, whose message is m
\* when m is not empty and "Internal error" when m is empty.
C8_HandlerFailure ==
    /\ []InvokesRegistered
    /\ [][SettleStep => \A i \in 1..Len(running) :
            (AwaitsWithParams(i) /\ FailsWithError(i) /\ handlerSettles(i)) =>
                /\ reply'.outcome = "returned"
                /\ IsErrorEnvelope(reply'.value, -32000,
                                   running[i].request.id)
                /\ Field(ValueOf(reply'.value).error, "message")
                        = IF MessageThrown(i) = Str("")
                          THEN Str("Internal error")
                          ELSE MessageThrown(i)]_vars

\* calculator.add has failed on [5,"x"], id 2, and its message was returned
C8_Witness ==
    /\ reply.outcome = "returned"
    /\ reply.invoked = "calculator.add"
    /\ IsErrorEnvelope(reply.value, -32000, Num(2))
    /\ Field(ValueOf(reply.value).error, "message")
            = Str("Parameters must be numbers")

\* a payload that is not a conforming request: not a string or object, a string
\* that does not decode, a string that decodes to a non-object, an object whose
\* jsonrpc is not "2.0" or whose method is not a string
NotARequest(payload) ==
    \/ TypeOf(payload) \notin {"string", "object"}
    \/ ~Carried(payload).ok
    \/ TypeOf(Carried(payload).value) # "object"
    \/ ~RpcShaped(Carried(payload).value)

NotRequests == {payload \in Payloads : NotARequest(payload)}

\* C9: for every payload that is not a conforming request, handleMessage
\* returns null and invokes no handler.
C9_AsClaimed ==
    [][\A channel \in Channels, payload \in NotRequests :
        handleMessage(channel, payload) =>
            /\ reply' = NullReply
            /\ running' = running]_vars

\* the payloads delivered with jsonrpc "2.0" and a string method
ShapedPayloads ==
    {payload \in Payloads :
        Carried(payload).ok /\ RpcShaped(Carried(payload).value)}

\* C10: for payloads with jsonrpc "2.0" and a string method (on an accepted
\* channel), the presence of id decides: without id handleMessage returns null
\* and invokes no handler; with an id it returns an envelope carrying that id,
\* at once or when the handler it invoked has settled.
C10_AsClaimed ==
    [][/\ \A channel \in Channels, payload \in ShapedPayloads :
            (Accepted(channel) /\ handleMessage(channel, payload)) =>
                IF HasKey(Carried(payload).value, "id")
                THEN \/ /\ reply'.outcome = "returned"
                        /\ HasKey(reply'.value, "id")
                        /\ ValueOf(reply'.value).id = IdIn(payload)
                        /\ running' = running
                     \/ /\ Len(running') = Len(running) + 1
                        /\ running'[Len(running')].request.id = IdIn(payload)
                        /\ reply' = reply
                ELSE /\ reply' = NullReply
                     /\ running' = running
       /\ SettleStep => \A i \in 1..Len(running) :
            handlerSettles(i) =>
                /\ reply'.outcome = "returned"
                /\ HasKey(reply'.value, "id")
                /\ ValueOf(reply'.value).id = running[i].request.id]_vars

\* C11: with a channel allow-list configured, handleMessage on a channel not
\* in the list returns null and invokes no handler, whatever the payload;
\* with none configured, a conforming request on any channel is processed
\* (it is answered with an envelope, or its handler is invoked).
C11_AllowList ==
    /\ \A channel \in Channels, payload \in Payloads :
            (enabledChannels # NULL /\ ~Accepted(channel)) =>
                handleMessageToAwait(channel, payload) =
                    [awaits |-> FALSE, completed |-> NullReply,
                     call |-> NoCall]
    /\ enabledChannels = NULL =>
            \A channel \in Channels, payload \in Requests :
                LET to == handleMessageToAwait(channel, payload)
                IN  \/ to.awaits /\ to.call.handler # NoHandler
                    \/ /\ ~to.awaits
                       /\ to.completed.outcome = "returned"
                       /\ HasKey(to.completed.value, "id")

\* a handleMessage call has returned null while the allow-list admitted no
\* channel and tools were registered
C11_Witness ==
    /\ enabledChannels # NULL
    /\ \A channel \in Channels : ~Accepted(channel)
    /\ Registered("echo")
    /\ reply = NullReply

-----------------------------------------------------------------------------
(* Tool registration claims                                                *)

\* the registerTool calls whose handler is callable, and the others
CallableInputs == {in \in ToolInputs : in.handler # NotAFunction}
NotCallableInputs == ToolInputs \ CallableInputs

\* C12: registerTool with a handler that is not callable fails, leaves the
\* tool table unchanged (an earlier registration of the method stays in
\* force) and starts no registry publication.
C12_InvalidHandler ==
    [][\A in \in NotCallableInputs :
        registerTool(in.methodName, in.handler, in.metadata) =>
            /\ reply'.op = "registerTool"
            /\ reply'.outcome = "raised"
            /\ tools' = tools
            /\ publishing' = publishing]_vars

\* a registerTool call has failed on a dispatcher that publishes its tools,
\* with calc.add registered before and no publication in flight
C12_Witness ==
    /\ reply.op = "registerTool"
    /\ reply.outcome = "raised"
    /\ autoRegisterInContract /\ peerTx
    /\ Registered("calc.add")
    /\ publishing = <<>>

\* the entries the tool table holds for the method
EntriesFor(table, method) == {i \in 1..Len(table) : table[i].method = method}

\* x || d, for a metadata field
Defaulted(x, d) == IF x \in {undefined, ""} THEN d ELSE x

\* C13: registerTool for a method name that may be registered already never
\* fails (the handler being callable); afterwards the tool table holds
\* exactly one entry for the method, with the handler just registered, to
\* which requests for the method are dispatched, and listTools reports the
\* metadata just registered.
C13_LastWriteWins ==
    /\ []InvokesRegistered
    /\ [][\A in \in CallableInputs :
            registerTool(in.methodName, in.handler, in.metadata) =>
                /\ reply'.op = "registerTool"
                /\ reply'.outcome = "returned"
                /\ Cardinality(EntriesFor(tools', in.methodName)) = 1
                /\ \A i \in EntriesFor(tools', in.methodName) :
                        /\ tools'[i].handler = in.handler
                        /\ listTools'[i] =
                            [method |-> in.methodName,
                             description |->
                                Defaulted(in.metadata.description, ""),
                             priceInTNK |->
                                Defaulted(in.metadata.priceInTNK, "0"),
                             category |->
                                Defaulted(in.metadata.category, "general"),
                             serviceId |->
                                Defaulted(in.metadata.serviceId,
                                          in.methodName)]]_vars

\* calc.add has just been registered again, with another handler and other
\* metadata, while a call to its first handler is still in progress
C13_Witness ==
    /\ reply.op = "registerTool"
    /\ reply.outcome = "returned"
    /\ \E i \in 1..Len(running) : running[i].handler = "calculator.add"
    /\ HandlerOf("calc.add") = "failEmpty"
    /\ Cardinality(EntriesFor(tools, "calc.add")) = 1
    /\ listTools[1].priceInTNK = "0"

\* C14: whenever registerTool (with a callable handler) triggers a registry
\* publication, it returns normally with the publication still in flight and
\* the tool in the table; however the publication ends (success, "already
\* exists", "not writable", another error, a value with no message) or if it
\* never ends, the tool table and the result of registerTool stay as they
\* were, and requests for the method are dispatched to the tool.
C14_PublicationSwallowed ==
    /\ []InvokesRegistered
    /\ [][/\ \A in \in CallableInputs :
                registerTool(in.methodName, in.handler, in.metadata) =>
                    /\ reply'.outcome = "returned"
                    /\ EntriesFor(tools', in.methodName) # {}
                    /\ IF autoRegisterInContract /\ peerTx
                       THEN /\ Len(publishing') = Len(publishing) + 1
                            /\ publishing'[Len(publishing')].method
                                    = in.methodName
                       ELSE publishing' = publishing
          /\ Len(publishing') < Len(publishing) =>
                /\ tools' = tools
                /\ reply' = reply
                /\ running' = running]_vars

\* calc.add was dispatched to its tool and answered while its publication
\* had not ended
C14_Witness ==
    /\ Len(publishing) > 0
    /\ publishing[1].method = "calc.add"
    /\ reply.op = "handleMessage"
    /\ reply.invoked = "calculator.add"
    /\ reply.outcome = "returned"

-----------------------------------------------------------------------------
(* Registry claims, with calls suspended at their store accesses           *)

\* the ids listed in services_index or in some providers/<address> list
ListedIds(s) ==
    Range(OrEmpty(get(s, IndexKey)))
        \cup UNION {Range(OrEmpty(get(s, ProviderKey(a)))) : a \in Addresses}

\* a call of op is suspended at one of the store accesses in pcs
InFlight(op, pcs) ==
    \E i \in 1..Len(calls) : calls[i].op = op /\ calls[i].pc \in pcs

\* C15: in every reachable state, the states between the store writes of
\* registerService and removeService calls in progress included, every id
\* in services_index or in a providers/<address> list has a record stored
\* at services/<id>.
C15_ListedIdsHaveRecords ==
    \A id \in ListedIds(store) : HasRecord(store, id)

\* a registerService has written its record and services_index but not yet
\* its provider list, while a removeService has written its record and not
\* yet services_index
C15_Witness ==
    /\ InFlight("registerService", {6, 7})
    /\ InFlight("removeService", {3, 4})
    /\ \E i \in 1..Len(calls) :
            /\ calls[i].op = "registerService"
            /\ calls[i].value.serviceId \in ListedIds(store)

ReadOps == {"listServices", "getServiceById", "getProviderServices"}

\* C18: listServices, getServiceById and getProviderServices only return
\* records whose active flag is true, also when a list still holds the id
\* of a record that a removeService in progress has already written as
\* inactive; the records a read in progress has collected are active too.
C18_ReadsReturnActive ==
    /\ ret.op \in ReadOps =>
            \A k \in 1..Len(ret.out) : ret.out[k].active
    /\ \A i \in 1..Len(calls) :
            \A k \in 1..Len(calls[i].out) : calls[i].out[k].active

\* a read has returned nothing for s1 while services_index or the provider
\* list still names s1: a removeService has written the inactive record and
\* not yet the lists
C18_Witness ==
    /\ ret.op \in {"listServices", "getProviderServices"}
    /\ ret.out = <<>>
    /\ "s1" \in ListedIds(store)
    /\ ~RecordAt(store, "s1").active
    /\ InFlight("removeService", {3, 4})

-----------------------------------------------------------------------------
(* Registry index claims, with every call run to completion                *)

\* the ids in services_index
Indexed(s) == Range(OrEmpty(get(s, IndexKey)))

\* C16: services_index contains exactly the serviceIds whose latest
\* successful mutation was a create or an update, and no id whose latest
\* successful mutation was a removal: right after a successful
\* registerService or updateService the id is indexed, and right after a
\* successful removeService it is not.
C16_AsClaimed ==
    ret.error = OK =>
        /\ ret.op \in {"registerService", "updateService"}
                => ret.arg \in Indexed(store)
        /\ ret.op = "removeService" => ret.arg \notin Indexed(store)

\* a list without duplicates
NoDuplicates(seq) ==
    \A i, j \in 1..Len(seq) : seq[i] = seq[j] => i = j

\* the ids of services_index whose record names providerAddress, in the
\* order of services_index
IndexOf(s, providerAddress) ==
    SelectSeq(OrEmpty(get(s, IndexKey)),
              LAMBDA id : /\ HasRecord(s, id)
                          /\ RecordAt(s, id).providerAddress = providerAddress)

\* C17: with the registry operations run to completion one at a time, after
\* every operation and for every provider address a, providers/<a> equals
\* the subsequence of services_index of the ids whose record has
\* providerAddress = a: same members, same order, no duplicates.
C17_ProviderListMirrorsIndex ==
    \A a \in Addresses :
        /\ OrEmpty(get(store, ProviderKey(a))) = IndexOf(store, a)
        /\ NoDuplicates(OrEmpty(get(store, ProviderKey(a))))

\* addrA has registered and removed s1 and addrB has registered s2: addrA's
\* list is empty again and addrB's list is the whole index
C17_Witness ==
    /\ OrEmpty(get(store, IndexKey)) = <<"s2">>
    /\ get(store, ProviderKey("addrA")) = Some(<<>>)
    /\ OrEmpty(get(store, ProviderKey("addrB"))) = <<"s2">>
    /\ HasRecord(store, "s1")

-----------------------------------------------------------------------------
(* Canonical encoding claims                                               *)

\* C19: structurally equal payloads whose keys were inserted in different
\* orders have the same stableStringify text, so the text signed for one is
\* the text computed for the other; {"b":2,"a":1} and {"a":1,"b":2} encode
\* identically.
C19_KeyOrderIrrelevant ==
    /\ \A other \in Reorderings(doc) :
            stableStringify(other) = stableStringify(doc)
    /\ canon # "" => stableStringify(doc) = canon
    /\ stableStringify(Object(<<<<"b", Num(2)>>, <<"a", Num(1)>>>>))
            = stableStringify(Object(<<<<"a", Num(1)>>, <<"b", Num(2)>>>>))

\* {"a":1,"b":2} was encoded and the payload is now {"b":2,"a":1}
C19_Witness ==
    /\ canon = "{\"a\":1,\"b\":2}"
    /\ doc = Object(<<<<"b", Num(2)>>, <<"a", Num(1)>>>>)

-----------------------------------------------------------------------------
(* Invite claims                                                           *)

\* --ttl is given and is not the text of a positive number of seconds, or it
\* is not given and no positive invite TTL is configured
NoPositiveTtl(args, defaultTtlMs) ==
    IF TtlRaw(args) # Undef
    THEN LET ttlSec == ParseInt(StringOf(TtlRaw(args)))
         IN  ttlSec = NaN \/ ValueOf(ttlSec) <= 0
    ELSE ~(IsFinite(defaultTtlMs) /\ ValueOf(defaultTtlMs) > 0)

\* the positive times-to-live: whole seconds, or a configured invite TTL
PositiveTtls ==
    {1000 * sec : sec \in 1..60}
        \cup {ValueOf(ttl) : ttl \in {d \in DefaultTtls :
                                        IsFinite(d) /\ ValueOf(d) > 0}}

\* the payloads that expire after they are issued
ExpiringPayloads ==
    {normalizeInvitePayload(
        [channel |-> Str("c1"), inviteePubKey |-> Str("ab"),
         inviterPubKey |-> Str("cd"), inviterAddress |-> JNull,
         issuedAt |-> Num(time), expiresAt |-> Num(time + ttlMs),
         nonce |-> Str("n1"), version |-> Num(1)]) :
        time \in 0..MaxNow, ttlMs \in PositiveTtls}

ExpiringInviteLines ==
    UNION {Range(InviteLines(payload, "5a", Undef)) :
            payload \in ExpiringPayloads}

ExpiringMessages == {stableStringify(payload) : payload \in ExpiringPayloads}

\* C20: /sc_invite never outputs an invite without a positive time-to-live.
\* With no ttl argument and no positive default invite TTL, and likewise
\* with a ttl of zero, negative or not a number, the command logs an error
\* message and has nothing signed; every invite logged and every message
\* signed expires after it is issued.
C20_NoInviteWithoutTtl ==
    /\ \A args \in ScArgs, peer \in ScPeers :
            LET out == sc_invite(args, peer, inviteTtlMs, now, welcomes)
            IN  NoPositiveTtl(args, inviteTtlMs) =>
                    /\ out.signed = {}
                    /\ Len(out.console) = 1
                    /\ out.console[1] \in ErrorLines
    /\ \A i \in 1..Len(console) :
            console[i] \in ErrorLines \cup ExpiringInviteLines
    /\ signed \subseteq ExpiringMessages

\* with an invite TTL of 0 configured, a command has been refused for its
\* time-to-live and nothing was signed
C20_Witness ==
    /\ inviteTtlMs = Num(0)
    /\ TtlRequiredLine \in Range(console)
    /\ signed = {}

\* the invite's signature verifies against its inviterPubKey and its channel
\* is the expected one
SignedForChannel(invite, expectedChannel) ==
    /\ invite.sig = Signature(stableStringify(
                                  normalizeInvitePayload(invite.payload)),
                              ValueOf(invite.payload.inviterPubKey))
    /\ invite.payload.channel = Str(expectedChannel)

\* payload.expiresAt is no time later than the time given
NotLater(expiresAt, time) ==
    ~(TypeOf(expiresAt) = "number" /\ ValueOf(expiresAt) > time)

\* C21: verifyInvite rejects every invite whose payload.expiresAt is not
\* later than the current time, also when its signature verifies against
\* inviterPubKey and its channel is the expected channel.
C21_ExpiredInviteRejected ==
    /\ \A invite \in ReceivedInvites, expectedChannel \in {"c1", "c2"} :
            NotLater(invite.payload.expiresAt, now) =>
                ~verifyInvite(invite, expectedChannel, now)
    /\ verified # NULL =>
            (NotLater(verified[1].invite.payload.expiresAt, now)
                => ~verifyInvite(verified[1].invite,
                                 verified[1].expectedChannel, now))

\* an invite signed by its inviter for the expected channel was accepted
\* before it expired and is rejected in the present state
C21_Witness ==
    /\ verified # NULL
    /\ verified[1].accepted
    /\ SignedForChannel(verified[1].invite, verified[1].expectedChannel)
    /\ NotLater(verified[1].invite.payload.expiresAt, now)
    /\ ~verifyInvite(verified[1].invite, verified[1].expectedChannel, now)

-----------------------------------------------------------------------------
(* Registry ownership and frame claims, with every call run to completion  *)

\* the id is in services_index or in some provider's list
Listed(s, id) == id \in ListedIds(s)

\* the id leaves services_index or a provider's list in this step
Unlisted(id) ==
    \/ id \in Indexed(store) /\ id \notin Indexed(store')
    \/ \E a \in Addresses :
            /\ id \in Range(OrEmpty(get(store, ProviderKey(a))))
            /\ id \notin Range(OrEmpty(get(store', ProviderKey(a))))

\* C22: with the registry operations run one at a time by any callers, the
\* providerAddress of a record never changes after creation, and every
\* change to an existing record and every removal of its id from an index
\* is made by a call whose caller address is the record's providerAddress.
C22_OwnerOnly ==
    [][\A id \in ServiceIds :
        HasRecord(store, id) =>
            /\ HasRecord(store', id)
            /\ RecordAt(store', id).providerAddress
                    = RecordAt(store, id).providerAddress
            /\ (RecordAt(store', id) # RecordAt(store, id) \/ Unlisted(id)) =>
                    /\ ret'.address = RecordAt(store, id).providerAddress
                    /\ ret'.arg = id
                    /\ ret'.op \in {"updateService", "removeService"}]_vars

\* addrB has removed its own service s1
C22_Witness ==
    /\ ret = Ret("removeService", "addrB", "s1", OK, <<>>)
    /\ RecordAt(store, "s1").providerAddress = "addrB"
    /\ ~RecordAt(store, "s1").active
    /\ "s1" \notin ListedIds(store)

-----------------------------------------------------------------------------
(* Registry claims about calls that interleave at their store accesses     *)

\* the calls of op that returned without an error
Succeeded(op) == {call \in succeeded : call.op = op}

\* C23: when registerService calls for distinct serviceIds interleave at
\* their store accesses and all complete successfully, every one of those ids
\* ends up in services_index and in its caller's providers/<address> list,
\* and listServices returns its record.
C23_AsClaimed ==
    (/\ calls = <<>>
     /\ Succeeded("removeService") = {}
     /\ \A c, d \in Succeeded("registerService") :
            c.value.serviceId = d.value.serviceId => c = d)
        => \A c \in Succeeded("registerService") :
                /\ c.value.serviceId \in Indexed(store)
                /\ c.value.serviceId
                        \in Range(OrEmpty(get(store, ProviderKey(c.address))))
                /\ \E k \in 1..Len(listServicesOut(store)) :
                        listServicesOut(store)[k].serviceId = c.value.serviceId

\* the registerService calls for an id that succeeded, and their callers
RegisteredBy(id) ==
    {c \in Succeeded("registerService") : c.value.serviceId = id}
Registrants(id) == {c.address : c \in RegisteredBy(id)}

\* how often an id occurs in a list
Occurrences(seq, id) == Cardinality({i \in 1..Len(seq) : seq[i] = id})

\* C24: when registerService calls for the same serviceId by different
\* providers interleave at their store accesses, at most one of them
\* succeeds, the stored record's providerAddress is the successful caller's,
\* and the id occurs at most once in services_index and in at most one
\* provider's list.
C24_AsClaimed ==
    \A id \in ServiceIds :
        /\ Cardinality(Registrants(id)) <= 1
        /\ \A a \in Registrants(id) :
                /\ RecordAt(store, id).providerAddress = a
                /\ \A b \in Addresses \ {a} :
                        id \notin Range(OrEmpty(get(store, ProviderKey(b))))
        /\ Cardinality(Registrants(id)) > 1 =>
                Occurrences(OrEmpty(get(store, IndexKey)), id) <= 1

\* the two updates of s1 that addrA makes
UpdateDescription ==
    Call("updateService", "addrA", Value("s1", "e", undefined, undefined))
UpdateCategory ==
    Call("updateService", "addrA", Value("s1", undefined, "math", undefined))

\* C25: updateService calls by the owner on the same serviceId that
\* interleave at their store accesses race, and the last put wins: the put
\* of a call stores the record that call read with its own fields changed,
\* whatever was stored in between, so that a final state is reached in which
\* both calls have reported success and the field change of one is lost.
C25_LastPutWins ==
    [][\A i \in 1..Len(calls) :
        (/\ calls[i].op = "updateService"
         /\ calls[i].pc = 2
         /\ calls' = Without(calls, i)
         /\ ret'.op = "updateService")
            => RecordAt(store', calls[i].value.serviceId)
                    = calls[i].service[1]]_vars

\* both updates have returned without an error, no call is in progress, and
\* the record has only one of the two changes
C25_Witness ==
    /\ calls = <<>>
    /\ {UpdateDescription, UpdateCategory} \subseteq succeeded
    /\ \/ RecordAt(store, "s1").description # "e"
       \/ RecordAt(store, "s1").category # "math"

-----------------------------------------------------------------------------
(* Registry frame claims: what a call made in a reachable state leaves     *)

\* the keys of the store other than those given
OtherKeysKept(before, after, keys) ==
    \A k \in Keys \ keys : after[k] = before[k]

\* the value given for a field, or the field's prior value
Given(field, prior) == IF field # undefined THEN field ELSE prior

\* C26: a successful updateService by the owner changes exactly those of
\* description, priceInTNK and category that the call provides; the fields
\* not provided and serviceId, method, providerAddress, timestamp and active
\* keep their values, services_index and every provider list are unchanged,
\* and a call that provides none of the three leaves the registry unchanged.
C26_UpdateFrame ==
    \A a \in Addresses, v \in UpdateValues :
        LET after == updateServiceOn(store, a, v)
            id == v.serviceId
            old == RecordAt(store, id)
            new == RecordAt(after.store, id)
        IN  after.error = OK =>
                /\ new = [serviceId |-> old.serviceId,
                          method |-> old.method,
                          description |-> Given(v.description, old.description),
                          priceInTNK |-> Given(v.priceInTNK, old.priceInTNK),
                          category |-> Given(v.category, old.category),
                          providerAddress |-> old.providerAddress,
                          timestamp |-> old.timestamp,
                          active |-> old.active]
                /\ OtherKeysKept(store, after.store, {ServiceKey(id)})
                /\ (/\ v.description = undefined
                    /\ v.priceInTNK = undefined
                    /\ v.category = undefined) => after.store = store

\* addrB has just changed the description and the price of its service s2,
\* registered after s1, and the category is still the default
C26_Witness ==
    /\ ret = Ret("updateService", "addrB", "s2", OK, <<>>)
    /\ RecordAt(store, "s2").description = "e"
    /\ RecordAt(store, "s2").priceInTNK = "2"
    /\ RecordAt(store, "s2").category = "general"
    /\ OrEmpty(get(store, IndexKey)) = <<"s1", "s2">>

\* the first position of id in seq
Position(seq, id) ==
    CHOOSE i \in 1..Len(seq) :
        /\ seq[i] = id
        /\ \A j \in 1..(i - 1) : seq[j] # id

\* list `after` is list `before` without id, the other ids in the same order
OnlyIdRemoved(before, after, id) ==
    /\ NoDuplicates(after)
    /\ Range(after) = Range(before) \ {id}
    /\ \A x \in Range(after), y \in Range(after) :
           Position(after, x) < Position(after, y)
               <=> Position(before, x) < Position(before, y)

C28_RefusedWithoutWrite ==
    /\ \A a \in Addresses, v \in UpdateValues :
           ~HasRecord(store, v.serviceId) =>
               updateServiceOn(store, a, v) = After(store, NotFound)
    /\ \A a \in Addresses, v \in RemoveValues :
           LET after == removeServiceOn(store, a, v)
           IN  IF ~HasRecord(store, v.serviceId)
               THEN after = After(store, NotFound)
               ELSE RecordAt(store, v.serviceId).providerAddress # a
                        => after = After(store, Unauthorized)

\* addrB has just been refused the removal of addrA's listed service s1, and
\* s2 has no record
C28_Witness ==
    /\ ret = Ret("removeService", "addrB", "s1", Unauthorized, <<>>)
    /\ HasRecord(store, "s1")
    /\ RecordAt(store, "s1").providerAddress = "addrA"
    /\ RecordAt(store, "s1").active
    /\ get(store, IndexKey) = Some(<<"s1">>)
    /\ ~HasRecord(store, "s2")

-----------------------------------------------------------------------------
(* Dispatcher claims: totality and the encoded response                    *)

\* a response envelope: jsonrpc "2.0", an id, and exactly one of result and
\* error
WellFormedEnvelope(value) ==
    /\ HasKey(value, "jsonrpc")
    /\ ValueOf(value).jsonrpc = Str("2.0")
    /\ HasKey(value, "id")
    /\ HasKey(value, "result") # HasKey(value, "error")

\* C29: handleMessage never raises: for every payload and every outcome of
\* the handler it completes with null or with a well-formed envelope
\* (jsonrpc "2.0", the request's id, exactly one of result and error).
C29_AsClaimed ==
    reply.op = "handleMessage" =>
        /\ reply.outcome = "returned"
        /\ reply.value = JNull \/ WellFormedEnvelope(reply.value)

\* the members of a response envelope in the order handleMessage writes
\* them: jsonrpc, then result or error, then id
EnvelopeMembers(envelope) ==
    Object(<<<<"jsonrpc", Field(envelope, "jsonrpc")>>>>
           \o (IF HasKey(envelope, "result")
               THEN <<<<"result", Field(envelope, "result")>>>>
               ELSE <<>>)
           \o (IF HasKey(envelope, "error")
               THEN <<<<"error",
                        Object(<<<<"code",
                                   Field(Field(envelope, "error"), "code")>>,
                                 <<"message",
                                   Field(Field(envelope, "error"),
                                         "message")>>>>)>>>>
               ELSE <<>>)
           \o <<<<"id", Field(envelope, "id")>>>>)

\* the envelope in the wire format: its JSON text
WireText(envelope) == JSONtext(EnvelopeMembers(envelope))

\* the JSON text of an envelope that has an id and no result member
WithoutResult(id) == "{\"jsonrpc\":\"2.0\",\"id\":" \o JSONtext(id) \o "}"

\* C30: when the handler completes without returning a value, the response
\* envelope, once encoded in the wire format, still has its result member:
\* the text is not that of an envelope without result.
C30_AsClaimed ==
    (/\ reply.op = "handleMessage"
     /\ reply.outcome = "returned"
     /\ HasKey(reply.value, "result"))
        => WireText(reply.value) # WithoutResult(Field(reply.value, "id"))

\* what the call is owed: its own id, with the result or the failure of its
\* own handler invocation
Own(call, completed) ==
    LET settled == CallHandler(call.handler,
                               ParamsOrEmpty(call.request.params))
        envelope == completed.value
    IN  completed.outcome = "returned" =>
            /\ completed.invoked = call.handler
            /\ WellFormedEnvelope(envelope)
            /\ Field(envelope, "id") = call.request.id
            /\ IF settled.kind = "return"
               THEN /\ HasKey(envelope, "result")
                    /\ Field(envelope, "result") = settled.value
               ELSE /\ HasKey(envelope, "error")
                    /\ Field(Field(envelope, "error"), "code")
                            = Num(HandlerFailureCode)
                    /\ Field(Field(envelope, "error"), "message")
                            = MessageOf(settled.value)

\* C31: the dispatcher does not serialize calls: several handleMessage calls
\* have their handlers in progress at the same time, and whichever of them
\* settles, in whatever order, the envelope returned carries that call's own
\* request id with the result or error of that call's own handler, and the
\* other calls stay in progress.
C31_OwnEnvelope ==
    [][SettleStep =>
        \E i \in 1..Len(running) :
            /\ running' = Without(running, i)
            /\ Own(running[i], reply')]_vars

\* two echo calls were in progress together, and the one begun last has
\* been answered while the one begun first is still in progress
C31_Witness ==
    /\ Len(running) = 1
    /\ running[1].request.method = Str("echo")
    /\ running[1].request.id = Num(0)
    /\ running[1].handler = "echo"
    /\ reply = Returned("echo",
                        SuccessResponse(Arr(<<Num(5)>>), Str("a")))

\* the ids of the requests received
RequestIds == {_parseJsonRpc(payload).request.id : payload \in ToolRequests}

\* a call with this id has its handler in progress
InProgress(id) == \E i \in 1..Len(running) : running[i].request.id = id

\* handleMessage has returned an envelope carrying this id
Answered(id) ==
    /\ reply.op = "handleMessage"
    /\ reply.outcome = "returned"
    /\ WellFormedEnvelope(reply.value)
    /\ Field(reply.value, "id") = id

\* C32: for every conforming request for a registered method on an enabled
\* channel the handler is invoked once, and, the invocation completing or
\* failing in the end, handleMessage returns an envelope for the request in
\* the end.
C32_AsClaimed ==
    \A id \in RequestIds : InProgress(id) ~> Answered(id)

-----------------------------------------------------------------------------
(* The list of tools                                                       *)

\* the list the caller of listTools holds, as the caller sees it now
Held == IF listed[1].live THEN listTools ELSE listed[1].list

\* the methods of a list, in its order
ListedMethods(list) == [i \in 1..Len(list) |-> list[i].method]

\* the methods of the tool table, in its order
TableMethods(table) == [i \in 1..Len(table) |-> table[i].method]

\* the entry of the list tells what the table holds for the method
Tells(entry, tool) ==
    /\ DOMAIN entry
        = {"method", "description", "priceInTNK", "category", "serviceId"}
    /\ entry.method = tool.method
    /\ entry.description = tool.metadata.description
    /\ entry.priceInTNK = tool.metadata.priceInTNK
    /\ entry.category = tool.metadata.category
    /\ entry.serviceId = tool.metadata.serviceId
    /\ entry.priceInTNK # "" /\ entry.category # "" /\ entry.serviceId # ""

\* C33: listTools returns one entry per method of the tool table, in the
\* order in which the methods were registered, each entry carrying method,
\* description, priceInTNK, category and serviceId; the list returned is a
\* snapshot that later registerTool calls do not alter, and listTools leaves
\* the tool table unchanged.
C33_ListIsSnapshot ==
    [][/\ listed' # listed =>
            /\ tools' = tools
            /\ Len(Held') = Len(tools)
            /\ NoDuplicates(ListedMethods(Held'))
            /\ \A i \in 1..Len(tools) : Tells(Held'[i], tools[i])
       /\ tools' # tools =>
            /\ listed # NULL => (listed' # NULL /\ Held' = Held)
            /\ \/ TableMethods(tools') = TableMethods(tools)
               \/ \E method \in {"calc.add", "echo"} :
                     /\ method \notin Range(TableMethods(tools))
                     /\ TableMethods(tools')
                            = Append(TableMethods(tools), method)
      ]_vars

\* the caller holds the list taken when echo was the only tool, with its
\* defaults; calc.add has been registered since, and echo registered again
\* with another handler
C33_Witness ==
    /\ listed # NULL
    /\ Held = <<[method |-> "echo", description |-> "", priceInTNK |-> "0",
                 category |-> "general", serviceId |-> "echo"]>>
    /\ TableMethods(tools) = <<"echo", "calc.add">>
    /\ tools[1].handler = "noReturn"
    /\ tools[2].metadata.priceInTNK = "0.1"

-----------------------------------------------------------------------------
(* The tool table and the registry                                         *)

\* the entry of listTools for the method
ListedFor(method) ==
    listTools[CHOOSE i \in 1..Len(tools) : tools[i].method = method]

\* C34: registering again a tool whose serviceId is published in the
\* registry updates the local tool table and leaves the registry record of
\* the serviceId unchanged, the bridge issuing register_service only and its
\* refusal being swallowed; the registry and listTools can then disagree.
C34_RegistryKeepsFirst ==
    [][/\ \A id \in ToolServiceIds :
            HasRecord(store, id) =>
                /\ HasRecord(store', id)
                /\ RecordAt(store', id) = RecordAt(store, id)
       /\ tools' # tools => store' = store
       /\ store' # store => ret'.op = "registerService" /\ ret'.error = OK
       /\ (ret' # ret /\ ret'.error = AlreadyExists) =>
            /\ store' = store
            /\ tools' = tools
            /\ reply' = reply
      ]_vars

\* echo was published at price 0, then registered again at price 5 with
\* another description; the second publication has been refused, the tool
\* table tells the new price and description, the registry the first ones
C34_Witness ==
    /\ publishing = <<>>
    /\ ret = Ret("registerService", PeerAddress, "echo", AlreadyExists, <<>>)
    /\ Registered("echo")
    /\ ListedFor("echo").priceInTNK = "5"
    /\ ListedFor("echo").description = "Echo v2"
    /\ HasRecord(store, "echo")
    /\ RecordAt(store, "echo").priceInTNK = "0"
    /\ RecordAt(store, "echo").description = "RPC method: echo"

-----------------------------------------------------------------------------
(* The invites /sc_invite emits                                            *)

\* the command has logged an invite: its JSON text and its base64 text
EmitsInvite(out) == Len(out.console) = 2

\* the time-to-live of the invite in milliseconds: the seconds of --ttl when
\* one is given, the configured invite TTL otherwise
ClaimedTtlMs(args, defaultTtlMs) ==
    IF TtlRaw(args) # Undef
    THEN 1000 * ValueOf(ParseInt(StringOf(TtlRaw(args))))
    ELSE ValueOf(defaultTtlMs)

\* the payload of the invite the command makes, issued and expiring at the
\* times given
PayloadFor(args, peer, issuedAt, expiresAt) ==
    Object(<<<<"channel", Str(StringOf(args.channel))>>,
             <<"inviteePubKey", Str(TrimLower(StringOf(args.pubkey)))>>,
             <<"inviterPubKey", Str(TrimLower(StringOf(peer.publicKey)))>>,
             <<"inviterAddress", JNull>>,
             <<"issuedAt", Num(issuedAt)>>,
             <<"expiresAt", Num(expiresAt)>>,
             <<"nonce", Str(peer.nonce)>>,
             <<"version", Num(1)>>>>)

\* C35: every invite emitted by /sc_invite has expiresAt = issuedAt +
\* ttl * 1000 with ttl > 0, hence expiresAt > issuedAt, where ttl is the
\* ttl passed in seconds when one is given and the configured default
\* invite TTL otherwise.
C35_ExpiresAfterTtl ==
    \A args \in ScArgs, peer \in ScPeers :
        LET out == sc_invite(args, peer, inviteTtlMs, now, welcomes)
            ttlMs == ClaimedTtlMs(args, inviteTtlMs)
        IN  EmitsInvite(out) =>
                /\ ttlMs > 0
                /\ now + ttlMs > now
                /\ out.console
                     = InviteLines(PayloadFor(args, peer, now, now + ttlMs),
                                   "5a",
                                   OrElse(getWelcome(welcomes,
                                                     StringOf(args.channel)),
                                          Undef))
                /\ out.signed
                     = {stableStringify(
                            PayloadFor(args, peer, now, now + ttlMs))}

\* with an invite TTL of 2000 ms configured, an invite was emitted at time 1
\* for --ttl 60: it expires at 60001
C35_Witness ==
    /\ inviteTtlMs = Num(2000)
    /\ console
        = InviteLines(
            PayloadFor([channel |-> Str("c1"), pubkey |-> Str("AB")],
                       [publicKey |-> Str("CD"), nonce |-> "n1"], 1, 60001),
            "5a", Undef)

\* the channels the last command broadcast on, was admitted to and was
\* denied
Broadcasts == {i \in 1..Len(trace) : trace[i][1] = "broadcast"}
AdmittedBefore(i, channel) ==
    \E j \in 1..(i - 1) : trace[j] = Admission(channel, TRUE)
Denied == \E j \in 1..Len(trace) : trace[j][1] = "addChannel"
                                    /\ trace[j] # Admission(trace[j][2], TRUE)
ReportsJoin(line) == line[1] = Str("Joined sidechannel:")

\* C36: channel admission gates sending: /sc_send broadcasts the message
\* only after addChannel for that channel has returned true; when
\* admission is denied nothing is broadcast; and /sc_join reports a join
\* only when admission returned true.
C36_AdmissionGates ==
    /\ \A i \in Broadcasts : AdmittedBefore(i, trace[i][2])
    /\ Denied => Broadcasts = {}
    /\ \A n \in 1..Len(console) :
            ReportsJoin(console[n]) =>
                trace[Len(trace)] = Admission(StringOf(console[n][2]), TRUE)

\* a message was broadcast on c1 after the invite given was accepted and
\* c1 admitted
C36_Witness ==
    trace = <<Called("acceptInvite", "c1"), Admission("c1", TRUE),
              <<"broadcast", "c1", Str("hello")>>>>

\* the welcome /sc_welcome signs for a channel at a time
WelcomeFor(channel, time) ==
    sc_welcome([channel |-> Str(channel), text |-> Str("hi")],
               [sidechannel |-> TRUE, publicKey |-> Str("CD"),
                signs |-> TRUE, nonce |-> "n1"], time).welcome

\* the welcomes /sc_welcome signs, each with its channel and the lines
\* logged for it
SignedWelcomes ==
    {[channel |-> channel,
      welcome |-> WelcomeFor(channel, time),
      lines |-> WelcomeLines(WelcomeFor(channel, time))] :
        channel \in ScChannels, time \in 0..MaxNow}

\* the step in which /sc_welcome signed the welcome
SignsWelcome(made) ==
    /\ console' = made.lines
    /\ trace' = <<Called("acceptInvite", made.channel)>>

\* the welcome embedded in an invite for the channel: the one stored, or
\* none
Embedded(channel) ==
    IF welcomes[channel] = JNull THEN Undef ELSE welcomes[channel]

\* C37: once /sc_welcome has signed a welcome for channel c, the welcome
\* is stored in the sidechannel state for c, and every later /sc_invite for
\* c without a welcome argument embeds that stored welcome; an invite for a
\* channel with no stored welcome and no welcome argument carries none.
C37_StoredWelcomeEmbedded ==
    /\ [][\A made \in SignedWelcomes :
            SignsWelcome(made) =>
                welcomes'[made.channel] = made.welcome]_vars
    /\ [](\A args \in ChannelInviteArgs, peer \in ChannelPeers :
            LET out == sc_invite(args, peer, inviteTtlMs, now, welcomes)
                channel == StringOf(args.channel)
            IN  EmitsInvite(out) /\ args.welcome = Undef =>
                    out.console[1]
                      = Log(JSONtext(JsonInvite(
                            PayloadFor(args, peer, now,
                                       now + ValueOf(TtlMs(TtlRaw(args),
                                                           inviteTtlMs))),
                            "5a", Embedded(channel)))))

\* the welcome signed for c1 at time 0 is stored, none is stored for c2,
\* and an invite issued for c1 at time 1 embeds it
C37_Witness ==
    /\ welcomes["c1"] = WelcomeFor("c1", 0)
    /\ welcomes["c2"] = JNull
    /\ now = 1
    /\ console =
         InviteLines(PayloadFor([channel |-> Str("c1"), pubkey |-> Str("AB")],
                                [publicKey |-> Str("CD"), nonce |-> "n1"],
                                1, 2001),
                     "5a", WelcomeFor("c1", 0))

\* the invite a /sc_invite command emits in this state
EmittedBy(args, peer) ==
    JsonInvite(PayloadFor(args, peer, now,
                          now + ValueOf(TtlMs(TtlRaw(args), inviteTtlMs))),
               "5a", Embedded(StringOf(args.channel)))

\* every invite emitted comes back from its JSON text, its base64 text and
\* its base64 text with the b64: prefix
RoundTrips ==
    \A args \in ScArgs, peer \in ScPeers :
        LET out == sc_invite(args, peer, inviteTtlMs, now, welcomes)
            inviteJson == out.console[1][1]
            inviteB64 == out.console[2][2]
        IN  EmitsInvite(out) =>
                /\ parseInviteArg(inviteJson) = EmittedBy(args, peer)
                /\ parseInviteArg(inviteB64) = EmittedBy(args, peer)
                /\ parseInviteArg(Prefixed("b64:", inviteB64))
                     = EmittedBy(args, peer)

\* the texts given to parseInviteArg
ParseInputs ==
    InviteTexts
        \cup {Bool(TRUE), Str(""), Str("{bad"), Str("b64:bad"), Str("5"),
              Base64("{bad"), Prefixed("b64:", Base64("bad")),
              Prefixed("b64:", Base64("null"))}

\* valid JSON, base64 of valid JSON, or the latter with the b64: prefix
IsJson(text) == TypeOf(text) = "string" /\ ParseJson(ValueOf(text)).ok
IsBase64OfJson(text) == TypeOf(text) = "base64" /\ ParseJson(text[2]).ok
Encoded(text) ==
    \/ IsJson(text)
    \/ IsBase64OfJson(text)
    \/ TypeOf(text) = "prefixed" /\ text[2] = "b64:"
            /\ IsBase64OfJson(text[3])

\* a text naming a file that can be read and holds an encoded text
FileOfEncoded(text) ==
    /\ StartsWith(text, "@")
    /\ ValueOf(Slice(text, 1)) \in DOMAIN Files
    /\ Encoded(Files[ValueOf(Slice(text, 1))])

RemovedBy(a, id) ==
    /\ HasRecord(store, id)
    /\ ~RecordAt(store, id).active
    /\ RecordAt(store, id).providerAddress = a

\* C39: removeService is idempotent for the owner: on an already removed
\* (inactive) record it succeeds without error and leaves the record,
\* services_index and the provider list as they were after the first
\* removal.
C39_RemoveIdempotent ==
    \A a \in Addresses, v \in RemoveValues :
        RemovedBy(a, v.serviceId) =>
            removeServiceOn(store, a, v) = After(store, OK)

\* addrA has removed s1, which is inactive and in neither list, while its
\* service s2 is still listed
C39_Witness ==
    /\ ret = Ret("removeService", "addrA", "s1", OK, <<>>)
    /\ RemovedBy("addrA", "s1")
    /\ get(store, IndexKey) = Some(<<"s2">>)
    /\ get(store, ProviderKey("addrA")) = Some(<<"s2">>)
    /\ removeServiceOn(store, "addrA", [serviceId |-> "s1"]).store = store

=============================================================================
